---- MODULE Spec2Model ----
(***************************************************************************)
(* A model of the in-memory MQTT backend of gomqtt (broker/backend.go):    *)
(* sessions, takeover in Setup, publish routing into bounded session       *)
(* queues, Dequeue, Terminate and the retained store, run by concurrent    *)
(* client goroutines under globalMutex and setupMutex.                     *)
(***************************************************************************)
EXTENDS Integers, Sequences, FiniteSets, TLC

(***************************************************************************)
(* Bounds of the model.                                                    *)
(***************************************************************************)
\* largest configured capacity of a session queue
MaxQueueSize == 2
\* number of Publish calls in one behaviour of the takeover specification
TakeoverMsgs == 2
\* number of Publish calls in one behaviour of the routing specification
RouteMsgs == 2
\* number of connections open at a time in the routing specification
RouteOpen == 2
\* number of Publish and StoreRetained calls in one behaviour of the retained
\* messages specification
RetainedMsgs == 3
\* number of connections in one behaviour of the retained messages
\* specification
RetainedClients == 2
\* number of appends to a queue after which its client calls QueueRetained no
\* more in the retained messages specification
RetainedAppends == 2

\* number of Close calls in one behaviour
MaxCloses == 2
\* number of Publish calls in one behaviour of the close specification
CloseMsgs == 2
\* number of connections open at a time in the close specification
CloseOpen == 2
\* number of connections open at a time in the authenticate specification
AuthOpen == 2
\* number of Publish calls in one behaviour of the unsubscribe specification
UnsubMsgs == 2
\* number of connections open at a time in the unsubscribe specification
UnsubOpen == 2
\* number of return codes of a SubackMessage
MaxCodes == 2
\* length of a buffer handed to SubackMessage.Encode
MaxDstLen == 7
\* length of a byte slice handed to SubackMessage.Decode
MaxSrcLen == 6
\* largest capacity of a token pool in the client engine specification
MaxTokens == 2
\* number of QoS 1 and QoS 2 messages the session hands out an id for
MaxPacketId == 2
\* number of packet ids the client uses for its own publishes
MaxInboundId == 2
\* number of packets written to one connection
MaxWritten == 5
\* number of connections of the client id in one behaviour
MaxConnections == 2

\* number of StoreRetained calls in one behaviour of the retained store
\* specification
StoreMsgs == 2
\* number of connections in one behaviour of the retained store specification
StoreClients == 2
\* number of appends to a queue after which its client calls QueueRetained no
\* more in the retained store specification
StoreAppends == 2

\* number of client connections (each *Client is used for one connection)
NumClients == 3
Clients == 1..NumClients
\* client ids a CONNECT may carry; "" is the zero-length id
ClientIds == {"", "a"}
\* concrete topics of published messages, as lists of levels
Topics == {<<"a", "b">>, <<"c">>}
\* topic filters of subscriptions, as lists of levels
Filters == {<<"a", "#">>, <<"+", "b">>}
\* topic filters of QueueRetained: those of the subscriptions and the filter
\* that matches every topic
RetainedFilters == Filters \cup {<<"#">>}
\* payloads of retained messages; "" is the empty payload
Payloads == {"", "p"}

\* the ids a session can be stored under
StoredIds == ClientIds \ {""}
\* the CONNECT packets the broker accepts: a zero-length id only with
\* clean session
Connects == {<<id, cl>> : id \in ClientIds, cl \in BOOLEAN} \ {<<"", FALSE>>}

\* packet ids the session hands out, and the ids of the client's publishes
PacketIds == 1..MaxPacketId
InboundIds == 1..MaxInboundId
\* a packet: its type, packet id, QoS and DUP flag
Packet(type, id, qos, dup) ==
    [type |-> type, id |-> id, qos |-> qos, dup |-> dup, sp |-> FALSE]
\* CONNACK with its session present flag
Connack(sp) == [Packet("CONNACK", 0, 0, FALSE) EXCEPT !.sp = sp]
\* no packet stored under an id
NoPacket == Packet("none", 0, 0, FALSE)
\* the reader or the dequeuer is not waiting for a token
NoWork == [pc |-> "idle", id |-> 0, qos |-> 0]
\* the session holds no subscription; the dequeuer has obtained no message
NoSubscription == [on |-> FALSE, qos |-> 0]
NoDelivery == [on |-> FALSE, message |-> 0, granted |-> NoSubscription]

\* NewSubackMessage(): no return codes, packet id 0
NewSubackMessage == [PacketID |-> 0, ReturnCodes |-> <<>>]
\* Encode or Decode was not called
NoResult == [called |-> FALSE, n |-> 0, err |-> FALSE, past |-> FALSE]
\* packet ids and return codes of the messages that are encoded; 3 is no
\* return code
SubackIds == {0, 1, 258, 65535}
SubackCodes == {0, 1, 2, 3, 128}
\* the bytes of the slices that are decoded: SUBACK headers with and without
\* flags, remaining lengths, return codes
SrcBytes == {0, 2, 3, 4, 128, 144, 145}
\* all sequences over S of length up to n
SeqsUpTo(S, n) == UNION {[1..k -> S] : k \in 0..n}

NoMsg == [id |-> 0, topic |-> <<>>, from |-> 0, payload |-> ""]
NoClient == 0
Free == 0
NoSession == 0
NoError == "nil"
ErrQueueFull == "queue full"
ErrKilled == "killed"
ErrClosing == "closing"
ErrKillTimeout == "kill timeout"
\* m.Credentials: whether the map is nil, and its <<user, password>> entries
\* m.Credentials is nil
NoCredentials == [nil |-> TRUE, map |-> {}]
\* the users and passwords of the Authenticate calls and of the map
AuthUsers == {"u", "v"}
AuthPasswords == {"p", "q"}
\* the maps m.Credentials can be set to: nil, or one password for each user
\* of a set of users (the empty map included)
CredentialMaps ==
    {NoCredentials} \cup
    {[nil |-> FALSE, map |-> {<<u, f[u]>> : u \in DOMAIN f}] :
        f \in UNION {[U -> AuthPasswords] : U \in SUBSET AuthUsers}}
NoFatal == "none"
FatalUnlock == "fatal error: sync: unlock of unlocked mutex"
PanicClose == "panic: close of closed channel"

VARIABLES
    pc,                 \* where each client goroutine is
    cid,                \* client.ClientID()
    clean,              \* client.CleanSession()
    csess,              \* client.Session(), NoSession before Setup returned
    ret,                \* what the last Setup or Publish of the client returned
    wait,               \* Setup's takeover wait: existingSession and its done channel
    pub,                \* a Publish in progress: msg, sessions still to visit, blocked on
    sessions,           \* the memorySession objects, by pointer
    activeClients,      \* m.activeClients
    storedSessions,     \* m.storedSessions
    temporarySessions,  \* m.temporarySessions
    retainedMessages,   \* m.retainedMessages
    globalMutex,        \* m.globalMutex: Free or the call that locked it
    setupMutex,         \* m.setupMutex: Free or the call that locked it
    SessionQueueSize,   \* m.SessionQueueSize, set before the backend is used
    closing,            \* m.closing
    fatal,              \* the process died: a runtime fatal error or a panic
    nextMsg,            \* next message to be published
    appended,           \* history: the messages appended to each session queue
    dequeued,           \* history: the messages Dequeue returned from each session
    lastSetup,          \* history: the last successful Setup of each id
    Credentials,        \* m.Credentials, set before the backend is used
    closer,             \* the goroutine that calls Close: where it is, its list
                        \* of done channels and what Close returned
    \* the client engine of the connections of one client id and its session
    ClientParallelPublishes, \* capacity of the publish token pool
    ClientInflightMessages,  \* capacity of the inflight token pool
    state,              \* "Closed" or "Connected"
    cleanSession,       \* the clean flag of the CONNECT of the connection
    sessionStored,      \* the backend holds a stored session for the id
    outgoing,           \* the session's outgoing packets, by packet id
    incoming,           \* the session's incoming packets: ids of QoS 2 publishes
    packetID,           \* the session's id counter: the next id it hands out
    publishTokens,      \* inbound exchanges that hold a publish token, by id
    inflightTokens,     \* outbound exchanges that hold an inflight token, by id
    reader,             \* the reader: idle, or waiting for a publish token
    dequeuer,           \* the dequeuer: idle, or waiting for an inflight token
    written,            \* the packets written to the connection, in order
    connections,        \* number of connections the client id has made
    subscription,       \* the session's subscription and the QoS granted to it
    delivered,          \* history: the QoS of the message the dequeuer obtained
                        \* last and the subscription it was matched with
    \* the SUBACK codec
    sm,                 \* the SubackMessage: PacketID and ReturnCodes
    buf,                \* the byte slice handed to Encode or Decode
    encoded,            \* what Encode returned
    decoded             \* what Decode returned and left in the message

engineVars == <<ClientParallelPublishes, ClientInflightMessages, state,
                cleanSession, sessionStored, outgoing, incoming, packetID,
                publishTokens, inflightTokens, reader, dequeuer, written,
                connections, subscription, delivered>>

backendVars == <<pc, cid, clean, csess, ret, wait, pub, sessions, activeClients,
                 storedSessions, temporarySessions, retainedMessages,
                 globalMutex, setupMutex, SessionQueueSize, closing, fatal,
                 nextMsg, appended, dequeued, lastSetup, Credentials, closer>>

codecVars == <<sm, buf, encoded, decoded>>

vars == <<backendVars, engineVars, codecVars>>

(***************************************************************************)
(* Helpers.                                                                *)
(***************************************************************************)
\* all orders in which the elements of a finite set can be visited
RECURSIVE Orders(_)
Orders(S) ==
    IF S = {} THEN {<<>>}
    ELSE UNION {{<<x>> \o o : o \in Orders(S \ {x})} : x \in S}

\* topic.Tree matching of a filter against a concrete topic, level by level
RECURSIVE Matches(_, _)
Matches(filter, topic) ==
    IF filter = <<>> THEN topic = <<>>
    ELSE IF Head(filter) = "#" THEN TRUE
    ELSE IF topic = <<>> THEN FALSE
    ELSE IF Head(filter) = "+" \/ Head(filter) = Head(topic)
         THEN Matches(Tail(filter), Tail(topic))
    ELSE FALSE

\* session.LookupSubscription(topic) != nil
LookupSubscription(s, topic) == \E f \in sessions[s].subs : Matches(f, topic)

\* newMemorySession(backlog) with its owner set: an empty queue and two open
\* channels; gen counts the channel pairs the session has had, freed marks an
\* object nothing refers to any more, anon a session made for a zero-length id
newMemorySession(owner) ==
    [queue |-> <<>>, owner |-> owner, kill |-> FALSE, done |-> FALSE, gen |-> 0,
     subs |-> {}, freed |-> FALSE, anon |-> FALSE]

\* mutant of reuse: the session keeps its kill and done channels
reuseKeepsChannels(s, owner) ==
    [sessions[s] EXCEPT !.gen = @ + 1, !.owner = owner]

\* memorySession.reuse() with the owner set: two new open channels
reuse(s, owner) ==
    [sessions[s] EXCEPT !.kill = FALSE, !.done = FALSE, !.gen = @ + 1,
                        !.owner = owner]

\* a session that left the maps and that no call refers to: the object is
\* garbage, its content is forgotten
Freed(s) == [queue |-> <<>>, owner |-> NoClient, kill |-> FALSE, done |-> TRUE,
             gen |-> 0, subs |-> {}, freed |-> TRUE, anon |-> s.anon]

NewSessionPtr == Len(sessions) + 1

\* the sessions the backend maps hold
TemporarySet == {temporarySessions[c] : c \in Clients} \ {NoSession}
StoredSet == {storedSessions[i] : i \in StoredIds} \ {NoSession}
Present(s) == s \in TemporarySet \cup StoredSet

\* a Publish is blocked sending to the queue of s
BlockedOn(s) == \E c \in Clients : pc[c] = "pub_blocked" /\ pub[c].on = s

\* the done channel a takeover waits for is closed
DoneClosed(w) == sessions[w.sess].done \/ sessions[w.sess].gen # w.gen

\* user and password are the arguments of the Authenticate call that returned
NoRet == [op |-> "none", resumed |-> FALSE, err |-> NoError, msg |-> NoMsg,
          ok |-> FALSE, user |-> "", password |-> ""]
NoWait == [sess |-> NoSession, gen |-> 0]
NoPub == [msg |-> NoMsg, rest |-> <<>>, on |-> NoSession, matched |-> {}]

\* the goroutine that calls Close
Closer == NumClients + 1
\* Close has not been called: no list of done channels, nothing returned
NoCloser == [pc |-> "idle", list |-> <<>>, ret |-> "none", owned |-> {},
             calls |-> 0]

NoSetup == [clean |-> FALSE, deleted |-> FALSE, content |-> FALSE,
            prior |-> [clean |-> FALSE, content |-> FALSE]]

InitState ==
    /\ pc = [c \in Clients |-> "new"]
    /\ cid = [c \in Clients |-> ""]
    /\ clean = [c \in Clients |-> FALSE]
    /\ csess = [c \in Clients |-> NoSession]
    /\ ret = [c \in Clients |-> NoRet]
    /\ wait = [c \in Clients |-> NoWait]
    /\ pub = [c \in Clients |-> NoPub]
    /\ sessions = <<>>
    /\ activeClients = [i \in StoredIds |-> NoClient]
    /\ storedSessions = [i \in StoredIds |-> NoSession]
    /\ temporarySessions = [c \in Clients |-> NoSession]
    /\ retainedMessages = [t \in Topics |-> NoMsg]
    /\ globalMutex = Free
    /\ setupMutex = Free
    /\ closing = FALSE
    /\ fatal = NoFatal
    /\ nextMsg = 1
    /\ appended = <<>>
    /\ dequeued = <<>>
    /\ lastSetup = [i \in StoredIds |-> NoSetup]
    /\ closer = NoCloser
    /\ state = "Closed"
    /\ cleanSession = FALSE
    /\ sessionStored = FALSE
    /\ outgoing = [i \in PacketIds |-> NoPacket]
    /\ incoming = {}
    /\ packetID = 1
    /\ publishTokens = {}
    /\ inflightTokens = {}
    /\ reader = NoWork
    /\ dequeuer = NoWork
    /\ written = <<>>
    /\ connections = 0
    /\ subscription = NoSubscription
    /\ delivered = NoDelivery
    /\ encoded = NoResult
    /\ decoded = NoResult

(***************************************************************************)
(* Setup.                                                                  *)
(***************************************************************************)
\* mutant of ExistingSession: the temporary session of the client registered
\* under the id is not looked up
ExistingStoredOnly(id) == storedSessions[id]

\* Setup, lines 272-278: the session that exists for the id, stored or the
\* temporary session of the client registered under the id
ExistingSession(id) ==
    IF storedSessions[id] # NoSession THEN storedSessions[id]
    ELSE IF activeClients[id] # NoClient
         THEN temporarySessions[activeClients[id]]
    ELSE NoSession

\* mutant of SetupSession: a fresh stored session is reported as resumed
SetupSessionFreshResumed(c, id, cl) ==
    IF cl
    THEN [sessions |-> Append(sessions, newMemorySession(c)),
          stored |-> [storedSessions EXCEPT ![id] = NoSession],
          temporary |-> [temporarySessions EXCEPT ![c] = NewSessionPtr],
          active |-> [activeClients EXCEPT ![id] = c],
          sess |-> NewSessionPtr, resumed |-> FALSE]
    ELSE IF storedSessions[id] # NoSession
    THEN [sessions |-> [sessions EXCEPT ![storedSessions[id]] =
                                            reuse(storedSessions[id], c)],
          stored |-> storedSessions,
          temporary |-> temporarySessions,
          active |-> [activeClients EXCEPT ![id] = c],
          sess |-> storedSessions[id], resumed |-> TRUE]
    ELSE [sessions |-> Append(sessions, newMemorySession(c)),
          stored |-> [storedSessions EXCEPT ![id] = NewSessionPtr],
          temporary |-> temporarySessions,
          active |-> [activeClients EXCEPT ![id] = c],
          sess |-> NewSessionPtr, resumed |-> TRUE]

\* mutant of SetupSession: a clean Setup leaves the stored session in place
SetupSessionKeepsStored(c, id, cl) ==
    IF cl
    THEN [sessions |-> Append(sessions, newMemorySession(c)),
          stored |-> storedSessions,
          temporary |-> [temporarySessions EXCEPT ![c] = NewSessionPtr],
          active |-> [activeClients EXCEPT ![id] = c],
          sess |-> NewSessionPtr, resumed |-> FALSE]
    ELSE IF storedSessions[id] # NoSession
    THEN [sessions |-> [sessions EXCEPT ![storedSessions[id]] =
                                            reuse(storedSessions[id], c)],
          stored |-> storedSessions,
          temporary |-> temporarySessions,
          active |-> [activeClients EXCEPT ![id] = c],
          sess |-> storedSessions[id], resumed |-> TRUE]
    ELSE [sessions |-> Append(sessions, newMemorySession(c)),
          stored |-> [storedSessions EXCEPT ![id] = NewSessionPtr],
          temporary |-> temporarySessions,
          active |-> [activeClients EXCEPT ![id] = c],
          sess |-> NewSessionPtr, resumed |-> FALSE]

\* Setup, lines 301-343: the session the call returns and what it changes
SetupSession(c, id, cl) ==
    IF cl
    THEN [sessions |-> Append(sessions, newMemorySession(c)),
          stored |-> [storedSessions EXCEPT ![id] = NoSession],
          temporary |-> [temporarySessions EXCEPT ![c] = NewSessionPtr],
          active |-> [activeClients EXCEPT ![id] = c],
          sess |-> NewSessionPtr, resumed |-> FALSE]
    ELSE IF storedSessions[id] # NoSession
    THEN [sessions |-> [sessions EXCEPT ![storedSessions[id]] =
                                            reuse(storedSessions[id], c)],
          stored |-> storedSessions,
          temporary |-> temporarySessions,
          active |-> [activeClients EXCEPT ![id] = c],
          sess |-> storedSessions[id], resumed |-> TRUE]
    ELSE [sessions |-> Append(sessions, newMemorySession(c)),
          stored |-> [storedSessions EXCEPT ![id] = NewSessionPtr],
          temporary |-> temporarySessions,
          active |-> [activeClients EXCEPT ![id] = c],
          sess |-> NewSessionPtr, resumed |-> FALSE]

\* Setup, lines 258-268: the temporary session of a zero-length id
SetupTemporary(c) ==
    [sessions |-> Append(sessions, [newMemorySession(c) EXCEPT !.anon = TRUE]),
     stored |-> storedSessions,
     temporary |-> [temporarySessions EXCEPT ![c] = NewSessionPtr],
     active |-> activeClients,
     sess |-> NewSessionPtr, resumed |-> FALSE]

\* the garbage collector: the sessions that neither map holds and that no
\* blocked send refers to are freed
Collect(ss, stored, temporary) ==
    [s \in 1..Len(ss) |->
        IF \/ \E i \in StoredIds : stored[i] = s
           \/ \E c \in Clients : temporary[c] = s
           \/ BlockedOn(s)
        THEN ss[s] ELSE Freed(ss[s])]

\* the history of the queues after the sessions became ss
CollectHistory(h, ss) ==
    [s \in 1..Len(ss) |-> IF s > Len(h) \/ ss[s].freed THEN <<>> ELSE h[s]]

\* history: what Setup for a non-empty id did, and whether the stored
\* session it deleted held subscriptions and queued messages
SetupRecord(id, cl) ==
    [clean |-> cl,
     deleted |-> cl /\ storedSessions[id] # NoSession,
     content |-> /\ cl /\ storedSessions[id] # NoSession
                 /\ sessions[storedSessions[id]].subs # {}
                 /\ sessions[storedSessions[id]].queue # <<>>,
     prior |-> [clean |-> lastSetup[id].clean, content |-> lastSetup[id].content]]

\* the state after Setup installed the session r and returned it; held says
\* whether globalMutex is locked when the deferred Unlock of line 247 runs
SetupReturn(c, id, cl, r, held) ==
    /\ sessions' = Collect(r.sessions, r.stored, r.temporary)
    /\ storedSessions' = r.stored
    /\ temporarySessions' = r.temporary
    /\ activeClients' = r.active
    /\ appended' = CollectHistory(appended, sessions')
    /\ dequeued' = CollectHistory(dequeued, sessions')
    /\ lastSetup' = IF id = "" THEN lastSetup
                    ELSE [lastSetup EXCEPT ![id] = SetupRecord(id, cl)]
    /\ setupMutex' = Free
    /\ globalMutex' = Free
    /\ IF held
       THEN /\ pc' = [pc EXCEPT ![c] = "connected"]
            /\ csess' = [csess EXCEPT ![c] = r.sess]
            /\ ret' = [ret EXCEPT ![c] = [NoRet EXCEPT !.op = "Setup",
                                                       !.resumed = r.resumed]]
            /\ fatal' = fatal
       ELSE /\ pc' = [pc EXCEPT ![c] = "crashed"]
            /\ fatal' = FatalUnlock
            /\ UNCHANGED <<csess, ret>>

\* Setup from the lock of setupMutex to its return or to the takeover wait
\* (lines 250-295); held says whether globalMutex is locked at that time
SetupBody(c, id, cl, held) ==
    LET existing == IF id = "" THEN NoSession ELSE ExistingSession(id) IN
    IF closing
    THEN \* lines 253-256
         /\ setupMutex' = Free
         /\ globalMutex' = Free
         /\ IF held
            THEN /\ pc' = [pc EXCEPT ![c] = "setup_failed"]
                 /\ ret' = [ret EXCEPT ![c] = [NoRet EXCEPT !.op = "Setup",
                                                            !.err = ErrClosing]]
                 /\ fatal' = fatal
            ELSE /\ pc' = [pc EXCEPT ![c] = "crashed"]
                 /\ fatal' = FatalUnlock
                 /\ ret' = ret
         /\ UNCHANGED <<csess, wait, sessions, activeClients, storedSessions,
                        temporarySessions, appended, dequeued, lastSetup>>
    ELSE IF id = ""
    THEN \* lines 258-268
         /\ SetupReturn(c, id, cl, SetupTemporary(c), held)
         /\ UNCHANGED wait
    ELSE IF existing # NoSession /\ sessions[existing].owner # NoClient
    THEN \* lines 280-295
         IF sessions[existing].kill
         THEN \* close of a closed channel panics; the deferred unlocks run
              /\ pc' = [pc EXCEPT ![c] = "crashed"]
              /\ fatal' = PanicClose
              /\ setupMutex' = Free
              /\ globalMutex' = Free
              /\ UNCHANGED <<csess, ret, wait, sessions, activeClients,
                             storedSessions, temporarySessions, appended,
                             dequeued, lastSetup>>
         ELSE /\ sessions' = [sessions EXCEPT ![existing].kill = TRUE]
              /\ globalMutex' = Free
              /\ IF held
                 THEN /\ pc' = [pc EXCEPT ![c] = "setup_wait"]
                      /\ setupMutex' = c
                      /\ wait' = [wait EXCEPT ![c] =
                                    [sess |-> existing,
                                     gen |-> sessions[existing].gen]]
                      /\ fatal' = fatal
                 ELSE /\ pc' = [pc EXCEPT ![c] = "crashed"]
                      /\ setupMutex' = Free
                      /\ fatal' = FatalUnlock
                      /\ wait' = wait
              /\ UNCHANGED <<csess, ret, activeClients, storedSessions,
                             temporarySessions, appended, dequeued, lastSetup>>
    ELSE \* lines 301-343
         /\ SetupReturn(c, id, cl, SetupSession(c, id, cl), held)
         /\ UNCHANGED wait

\* the next connection to come: connections are numbered as they connect
NextClient(c) == \A d \in Clients : d < c => pc[d] # "new"

\* Setup is called and locks globalMutex (lines 244-247), then setupMutex
\* (line 250) when it is free
Setup(c, id, cl) ==
    /\ fatal = NoFatal
    /\ pc[c] = "new"
    /\ NextClient(c)
    /\ globalMutex = Free
    /\ cid' = [cid EXCEPT ![c] = id]
    /\ clean' = [clean EXCEPT ![c] = cl]
    /\ IF setupMutex = Free
       THEN SetupBody(c, id, cl, TRUE)
       ELSE /\ globalMutex' = c
            /\ pc' = [pc EXCEPT ![c] = "setup_lockS"]
            /\ UNCHANGED <<csess, ret, wait, sessions, activeClients,
                           storedSessions, temporarySessions, setupMutex, fatal,
                           appended, dequeued, lastSetup>>
    /\ UNCHANGED <<codecVars, engineVars, SessionQueueSize, Credentials, closer,
                   pub, retainedMessages, closing, nextMsg>>

\* Setup, blocked at line 250 with globalMutex locked, locks setupMutex
SetupLocked(c) ==
    /\ fatal = NoFatal
    /\ pc[c] = "setup_lockS"
    /\ setupMutex = Free
    /\ SetupBody(c, cid[c], clean[c], globalMutex # Free)
    /\ UNCHANGED <<codecVars, engineVars, SessionQueueSize, Credentials, closer,
                   cid, clean, pub, retainedMessages, closing,
                   nextMsg>>

\* the takeover wait ends with the done signal (lines 290-292)
SetupWaitDone(c) ==
    /\ fatal = NoFatal
    /\ pc[c] = "setup_wait"
    /\ DoneClosed(wait[c])
    /\ pc' = [pc EXCEPT ![c] = "setup_relock"]
    /\ wait' = [wait EXCEPT ![c] = NoWait]
    /\ UNCHANGED <<codecVars, engineVars, SessionQueueSize, Credentials, closer,
                   cid, clean, csess, ret, pub, sessions,
                   activeClients, storedSessions, temporarySessions,
                   retainedMessages, globalMutex, setupMutex, closing, fatal,
                   nextMsg, appended, dequeued, lastSetup>>

\* the takeover wait ends with the timeout: Setup returns ErrKillTimeout and
\* the deferred setupMutex.Unlock() of line 251 runs (lines 293-294)
SetupWaitTimeout(c) ==
    /\ fatal = NoFatal
    /\ pc[c] = "setup_wait"
    /\ pc' = [pc EXCEPT ![c] = "setup_unlockG"]
    /\ setupMutex' = Free
    /\ wait' = [wait EXCEPT ![c] = NoWait]
    /\ UNCHANGED <<codecVars, engineVars, SessionQueueSize, Credentials, closer,
                   cid, clean, csess, ret, pub, sessions,
                   activeClients, storedSessions, temporarySessions,
                   retainedMessages, globalMutex, closing, fatal, nextMsg,
                   appended, dequeued, lastSetup>>

\* after the timeout the deferred globalMutex.Unlock() of line 247 runs, on a
\* mutex this call released at line 287: a fatal error when nobody locked it
\* since, the release of another call's lock otherwise
SetupUnlockGlobal(c) ==
    /\ fatal = NoFatal
    /\ pc[c] = "setup_unlockG"
    /\ globalMutex' = Free
    /\ IF globalMutex # Free
       THEN /\ pc' = [pc EXCEPT ![c] = "setup_failed"]
            /\ ret' = [ret EXCEPT ![c] = [NoRet EXCEPT !.op = "Setup",
                                                       !.err = ErrKillTimeout]]
            /\ fatal' = fatal
       ELSE /\ pc' = [pc EXCEPT ![c] = "crashed"]
            /\ fatal' = FatalUnlock
            /\ ret' = ret
    /\ cid' = [cid EXCEPT ![c] = ""]
    /\ clean' = [clean EXCEPT ![c] = FALSE]
    /\ UNCHANGED <<codecVars, engineVars, SessionQueueSize, Credentials, closer,
                   csess, wait, pub, sessions, activeClients,
                   storedSessions, temporarySessions, retainedMessages,
                   setupMutex, closing, nextMsg, appended, dequeued, lastSetup>>

\* after the done signal Setup locks globalMutex again and runs to its return
\* (lines 297-343)
SetupRelock(c) ==
    /\ fatal = NoFatal
    /\ pc[c] = "setup_relock"
    /\ globalMutex = Free
    /\ SetupReturn(c, cid[c], clean[c], SetupSession(c, cid[c], clean[c]), TRUE)
    /\ UNCHANGED <<codecVars, engineVars, SessionQueueSize, Credentials, closer,
                   cid, clean, wait, pub, retainedMessages,
                   closing, nextMsg>>

(***************************************************************************)
(* Terminate.                                                              *)
(***************************************************************************)
\* mutant of TerminateSession: the client stays registered under its id
TerminateKeepsActive(c) ==
    [sessions |-> [sessions EXCEPT ![csess[c]].owner = NoClient,
                                   ![csess[c]].done = TRUE],
     stored |-> storedSessions,
     temporary |-> [temporarySessions EXCEPT ![c] = NoSession],
     active |-> activeClients]

\* mutant of TerminateSession: the temporary session stays in the map
TerminateKeepsTemporary(c) ==
    [sessions |-> [sessions EXCEPT ![csess[c]].owner = NoClient,
                                   ![csess[c]].done = TRUE],
     stored |-> storedSessions,
     temporary |-> temporarySessions,
     active |-> IF cid[c] = "" THEN activeClients
                ELSE [activeClients EXCEPT ![cid[c]] = NoClient]]

\* Terminate, lines 476-489: what it changes in the session and the maps
TerminateSession(c) ==
    [sessions |-> [sessions EXCEPT ![csess[c]].owner = NoClient,
                                   ![csess[c]].done = TRUE],
     stored |-> storedSessions,
     temporary |-> [temporarySessions EXCEPT ![c] = NoSession],
     active |-> IF cid[c] = "" THEN activeClients
                ELSE [activeClients EXCEPT ![cid[c]] = NoClient]]

\* Terminate (lines 471-492), called once by a client that was set up; the
\* connection is gone after it
Terminate(c) ==
    /\ fatal = NoFatal
    /\ pc[c] \in {"connected", "killed", "stopped", "pub_failed", "queue_failed"}
    /\ globalMutex = Free
    /\ LET r == TerminateSession(c) IN
       /\ sessions' = Collect(r.sessions, r.stored, r.temporary)
       /\ storedSessions' = r.stored
       /\ temporarySessions' = r.temporary
       /\ activeClients' = r.active
       /\ appended' = CollectHistory(appended, sessions')
       /\ dequeued' = CollectHistory(dequeued, sessions')
       /\ IF sessions[csess[c]].done
          THEN /\ pc' = [pc EXCEPT ![c] = "crashed"]
               /\ fatal' = PanicClose
          ELSE /\ pc' = [pc EXCEPT ![c] = "closed"]
               /\ fatal' = fatal
    /\ cid' = [cid EXCEPT ![c] = ""]
    /\ clean' = [clean EXCEPT ![c] = FALSE]
    /\ csess' = [csess EXCEPT ![c] = NoSession]
    /\ ret' = [ret EXCEPT ![c] = NoRet]
    /\ UNCHANGED <<codecVars, engineVars, SessionQueueSize, Credentials, closer,
                   wait, pub, retainedMessages, globalMutex,
                   setupMutex, closing, nextMsg, lastSetup>>

(***************************************************************************)
(* Publish.                                                                *)
(***************************************************************************)
\* history: an append to the queue of s, with the owner s had at that time
\* and the operation that appended
Entry(ss, s, msg, op) == [msg |-> msg, owner |-> ss[s].owner, op |-> op]

\* mutant of Enqueue: the message is sent once more when two subscriptions
\* of the session match it
EnqueuePerSubscription(st, s, msg) ==
    LET e == Entry(st.sessions, s, msg, "Publish")
        twice == Cardinality({f \in st.sessions[s].subs : Matches(f, msg.topic)}) > 1
    IN [st EXCEPT !.sessions[s].queue = IF twice THEN @ \o <<msg, msg>>
                                         ELSE Append(@, msg),
                  !.appended[s] = IF twice THEN @ \o <<e, e>> ELSE Append(@, e)]

\* sess.queue <- msg, with the history of the queue
Enqueue(st, s, msg) ==
    [st EXCEPT !.sessions[s].queue = Append(@, msg),
               !.appended[s] = Append(@, Entry(st.sessions, s, msg, "Publish"))]

\* mutant of Route: the full queue of another session ends the call with
\* ErrQueueFull too
RECURSIVE RouteReportsForeign(_, _, _, _)
RouteReportsForeign(c, msg, order, st) ==
    IF order = <<>>
    THEN [st EXCEPT !.outcome = "done"]
    ELSE LET s == Head(order) IN
         IF ~ \E f \in st.sessions[s].subs : Matches(f, msg.topic)
         THEN RouteReportsForeign(c, msg, Tail(order), st)
         ELSE IF Len(st.sessions[s].queue) < SessionQueueSize
         THEN RouteReportsForeign(c, msg, Tail(order), Enqueue(st, s, msg))
         ELSE [st EXCEPT !.outcome = "full"]

\* mutant of Route: a session that holds any subscription gets the message
RECURSIVE RouteAnySubscription(_, _, _, _)
RouteAnySubscription(c, msg, order, st) ==
    IF order = <<>>
    THEN [st EXCEPT !.outcome = "done"]
    ELSE LET s == Head(order) IN
         IF st.sessions[s].subs = {}
         THEN RouteAnySubscription(c, msg, Tail(order), st)
         ELSE IF Len(st.sessions[s].queue) < SessionQueueSize
         THEN RouteAnySubscription(c, msg, Tail(order), Enqueue(st, s, msg))
         ELSE IF st.sessions[s].owner = c
         THEN [st EXCEPT !.outcome = "full"]
         ELSE [st EXCEPT !.outcome = "blocked", !.on = s, !.rest = Tail(order)]

\* mutant of Route: the send to the publisher's own full queue blocks too
RECURSIVE RouteBlocksOwn(_, _, _, _)
RouteBlocksOwn(c, msg, order, st) ==
    IF order = <<>>
    THEN [st EXCEPT !.outcome = "done"]
    ELSE LET s == Head(order) IN
         IF ~ \E f \in st.sessions[s].subs : Matches(f, msg.topic)
         THEN RouteBlocksOwn(c, msg, Tail(order), st)
         ELSE IF Len(st.sessions[s].queue) < SessionQueueSize
         THEN RouteBlocksOwn(c, msg, Tail(order), Enqueue(st, s, msg))
         ELSE [st EXCEPT !.outcome = "blocked", !.on = s, !.rest = Tail(order)]

\* Publish, lines 433-462: visit the sessions of order one after the other;
\* a matching session gets the message, the publisher's own full queue ends
\* the call with ErrQueueFull, another session's full queue blocks it
RECURSIVE Route(_, _, _, _)
Route(c, msg, order, st) ==
    IF order = <<>>
    THEN [st EXCEPT !.outcome = "done"]
    ELSE LET s == Head(order) IN
         IF ~ \E f \in st.sessions[s].subs : Matches(f, msg.topic)
         THEN Route(c, msg, Tail(order), st)
         ELSE IF Len(st.sessions[s].queue) < SessionQueueSize
         THEN Route(c, msg, Tail(order), Enqueue(st, s, msg))
         ELSE IF st.sessions[s].owner = c
         THEN [st EXCEPT !.outcome = "full"]
         ELSE [st EXCEPT !.outcome = "blocked", !.on = s, !.rest = Tail(order)]

RouteStart == [sessions |-> sessions, appended |-> appended, outcome |-> "",
               on |-> NoSession, rest |-> <<>>]

\* the state after Route ended with r; held says whether globalMutex is locked
\* when the deferred Unlock of line 430 runs
PublishOutcome(c, msg, r, held, matched) ==
    /\ sessions' = r.sessions
    /\ appended' = r.appended
    /\ IF r.outcome = "blocked"
       THEN /\ pc' = [pc EXCEPT ![c] = "pub_blocked"]
            /\ pub' = [pub EXCEPT ![c] = [msg |-> msg, rest |-> r.rest, on |-> r.on,
                                          matched |-> matched]]
            /\ globalMutex' = IF pc[c] = "pub_sent" THEN globalMutex ELSE c
            /\ UNCHANGED <<ret, fatal>>
       ELSE /\ pub' = [pub EXCEPT ![c] = NoPub]
            /\ globalMutex' = Free
            /\ IF held
               THEN /\ pc' = [pc EXCEPT ![c] = IF r.outcome = "full" THEN "pub_failed"
                                               ELSE "connected"]
                    /\ ret' = [ret EXCEPT ![c] =
                                 [NoRet EXCEPT !.op = "Publish", !.msg = msg,
                                               !.err = IF r.outcome = "full"
                                                       THEN ErrQueueFull
                                                       ELSE NoError]]
                    /\ fatal' = fatal
               ELSE /\ pc' = [pc EXCEPT ![c] = "crashed"]
                    /\ fatal' = FatalUnlock
                    /\ ret' = ret

\* the sessions of the maps that hold a subscription matching the topic
Matching(topic) == {s \in TemporarySet \cup StoredSet : LookupSubscription(s, topic)}

\* Publish is called, locks globalMutex and runs to its return or to the
\* first full queue of another session (lines 427-465); the maps are ranged
\* over in any order, the temporary sessions first
Publish(c, topic) ==
    /\ fatal = NoFatal
    /\ pc[c] = "connected"
    /\ globalMutex = Free
    /\ nextMsg' = nextMsg + 1
    /\ LET msg == [id |-> nextMsg, topic |-> topic, from |-> c, payload |-> "p"] IN
       \E o1 \in Orders(TemporarySet), o2 \in Orders(StoredSet) :
           PublishOutcome(c, msg, Route(c, msg, o1 \o o2, RouteStart), TRUE,
                          Matching(topic))
    /\ UNCHANGED <<codecVars, engineVars, SessionQueueSize, Credentials, closer,
                   cid, clean, csess, wait, activeClients,
                   storedSessions, temporarySessions, retainedMessages,
                   setupMutex, closing, dequeued, lastSetup>>

\* after its blocked send was received Publish goes on with the sessions not
\* yet visited that the maps still hold (lines 443 and 459)
PublishResume(c) ==
    /\ fatal = NoFatal
    /\ pc[c] = "pub_sent"
    /\ LET msg == pub[c].msg
           rest == SelectSeq(pub[c].rest, Present)
       IN PublishOutcome(c, msg, Route(c, msg, rest, RouteStart),
                         globalMutex # Free, pub[c].matched)
    /\ UNCHANGED <<codecVars, engineVars, SessionQueueSize, Credentials, closer,
                   cid, clean, csess, wait, activeClients,
                   storedSessions, temporarySessions, retainedMessages,
                   setupMutex, closing, nextMsg, dequeued, lastSetup>>

(***************************************************************************)
(* Dequeue and the subscriptions.                                          *)
(***************************************************************************)
\* mutant of Received: the receive yields the newest message of the queue
ReceivedLast(q) == q[Len(q)]

\* Dequeue, line 378: the message a receive from the queue yields
Received(q) == Head(q)

\* Dequeue, line 378: the queue after the receive
AfterReceive(q) == Tail(q)

\* the Publish calls blocked sending to the queue of s
Senders(s) == {p \in Clients : pc[p] = "pub_blocked" /\ pub[p].on = s}

\* Dequeue returns the next message of the client's session (lines 376-379),
\* also while a Publish of the client is under way and whatever other cases
\* of the select are ready; the receive from a full channel completes the
\* send of a blocked Publish
DequeueMessage(c) ==
    /\ fatal = NoFatal
    /\ pc[c] \in {"connected", "pub_blocked", "pub_sent", "conn_closed"}
    /\ sessions[csess[c]].queue # <<>>
    /\ LET s == csess[c]
           q == sessions[s].queue
       IN /\ dequeued' = [dequeued EXCEPT ![s] = Append(@, Received(q))]
          /\ IF Senders(s) = {}
             THEN /\ sessions' = [sessions EXCEPT ![s].queue = AfterReceive(q)]
                  /\ UNCHANGED <<pc, pub, appended>>
             ELSE \E p \in Senders(s) :
                  /\ sessions' = [sessions EXCEPT ![s].queue =
                                      Append(AfterReceive(q), pub[p].msg)]
                  /\ appended' = [appended EXCEPT ![s] =
                                      Append(@, Entry(sessions, s, pub[p].msg,
                                                      "Publish"))]
                  /\ pc' = [pc EXCEPT ![p] = "pub_sent"]
                  /\ pub' = [pub EXCEPT ![p].on = NoSession]
    /\ UNCHANGED <<codecVars, engineVars, SessionQueueSize, Credentials, closer,
                   cid, clean, csess, ret, wait,
                   activeClients, storedSessions, temporarySessions,
                   retainedMessages, globalMutex, setupMutex, closing, fatal,
                   nextMsg, lastSetup>>

\* mutant of KillReceived: the kill signal is a value that the receive takes
\* out of the channel
KillConsumed(ss, s) == [ss EXCEPT ![s].kill = FALSE]

\* Dequeue, line 382: the sessions after a receive from the closed kill
\* channel of s, which stays closed
KillReceived(ss, s) == ss

\* Dequeue returns ErrKilled once the kill channel of the session is closed
\* (lines 382-383); the client then stops and will call Terminate
DequeueKilled(c) ==
    /\ fatal = NoFatal
    /\ pc[c] \in {"connected", "conn_closed"}
    /\ sessions[csess[c]].kill
    /\ pc' = [pc EXCEPT ![c] = "killed"]
    /\ ret' = [ret EXCEPT ![c] = [NoRet EXCEPT !.op = "Dequeue", !.err = ErrKilled]]
    /\ sessions' = KillReceived(sessions, csess[c])
    /\ UNCHANGED <<codecVars, engineVars, SessionQueueSize, Credentials, closer,
                   cid, clean, csess, wait, pub,
                   activeClients, storedSessions, temporarySessions,
                   retainedMessages, globalMutex, setupMutex, closing, fatal,
                   nextMsg, appended, dequeued, lastSetup>>

\* the client saves a subscription in its session (Session.SaveSubscription,
\* lines 34-36; MemoryBackend.Subscribe itself changes nothing, lines 354-358)
Subscribe(c, f) ==
    /\ fatal = NoFatal
    /\ pc[c] = "connected"
    /\ f \notin sessions[csess[c]].subs
    /\ sessions' = [sessions EXCEPT ![csess[c]].subs = @ \cup {f}]
    /\ UNCHANGED <<codecVars, engineVars, SessionQueueSize, Credentials, closer,
                   pc, cid, clean, csess, ret, wait, pub,
                   activeClients, storedSessions, temporarySessions,
                   retainedMessages, globalMutex, setupMutex, closing, fatal,
                   nextMsg, appended, dequeued, lastSetup>>

\* the client deletes a subscription from its session
\* (Session.DeleteSubscription, lines 42-45; MemoryBackend.Unsubscribe itself
\* changes nothing, lines 361-365)
Unsubscribe(c, f) ==
    /\ fatal = NoFatal
    /\ pc[c] = "connected"
    /\ f \in sessions[csess[c]].subs
    /\ sessions' = [sessions EXCEPT ![csess[c]].subs = @ \ {f}]
    /\ UNCHANGED <<codecVars, engineVars, SessionQueueSize, Credentials, closer,
                   pc, cid, clean, csess, ret, wait, pub,
                   activeClients, storedSessions, temporarySessions,
                   retainedMessages, globalMutex, setupMutex, closing, fatal,
                   nextMsg, appended, dequeued, lastSetup>>

(***************************************************************************)
(* The retained messages.                                                  *)
(***************************************************************************)
\* mutant of StoreRetained: a topic that has a retained message keeps it
StoreRetainedKeepsFirst(c, t, payload) ==
    /\ fatal = NoFatal
    /\ pc[c] = "connected"
    /\ retainedMessages' =
          IF retainedMessages[t] # NoMsg THEN retainedMessages
          ELSE [retainedMessages EXCEPT ![t] =
                   [id |-> nextMsg, topic |-> t, from |-> c,
                    payload |-> payload]]
    /\ nextMsg' = nextMsg + 1
    /\ UNCHANGED <<codecVars, engineVars, SessionQueueSize, Credentials, closer, pc, cid, clean, csess,
                   ret, wait, pub, sessions, activeClients, storedSessions,
                   temporarySessions, globalMutex, setupMutex, closing, fatal,
                   appended, dequeued, lastSetup>>

\* StoreRetained (lines 388-395): the message becomes the retained message of
\* its topic, whatever its payload
StoreRetained(c, t, payload) ==
    /\ fatal = NoFatal
    /\ pc[c] = "connected"
    /\ retainedMessages' = [retainedMessages EXCEPT ![t] =
                               [id |-> nextMsg, topic |-> t, from |-> c,
                                payload |-> payload]]
    /\ nextMsg' = nextMsg + 1
    /\ UNCHANGED <<codecVars, engineVars, SessionQueueSize, Credentials, closer,
                   pc, cid, clean, csess, ret, wait, pub,
                   sessions, activeClients, storedSessions, temporarySessions,
                   globalMutex, setupMutex, closing, fatal, appended, dequeued,
                   lastSetup>>

\* mutant of ClearRetained: the whole store is emptied
ClearRetainedAll(c, t) ==
    /\ fatal = NoFatal
    /\ pc[c] = "connected"
    /\ retainedMessages[t] # NoMsg
    /\ retainedMessages' = [u \in Topics |-> NoMsg]
    /\ UNCHANGED <<codecVars, engineVars, SessionQueueSize, Credentials, closer, pc, cid, clean, csess,
                   ret, wait, pub, sessions, activeClients, storedSessions,
                   temporarySessions, globalMutex, setupMutex, closing, fatal,
                   nextMsg, appended, dequeued, lastSetup>>

\* ClearRetained (lines 398-405): the topic has no retained message any more
ClearRetained(c, t) ==
    /\ fatal = NoFatal
    /\ pc[c] = "connected"
    /\ retainedMessages[t] # NoMsg
    /\ retainedMessages' = [retainedMessages EXCEPT ![t] = NoMsg]
    /\ UNCHANGED <<codecVars, engineVars, SessionQueueSize, Credentials, closer,
                   pc, cid, clean, csess, ret, wait, pub,
                   sessions, activeClients, storedSessions, temporarySessions,
                   globalMutex, setupMutex, closing, fatal, nextMsg, appended,
                   dequeued, lastSetup>>

\* retainedMessages.Search(topic): the retained messages the filter matches
Search(f) == {retainedMessages[t] : t \in {u \in Topics : Matches(f, u)}} \ {NoMsg}

\* QueueRetained, lines 413-419: the values are sent to the queue q one after
\* the other without blocking, up to the first that finds the queue full
QueueValues(q, values) ==
    LET room == SessionQueueSize - Len(q) IN
    IF Len(values) <= room THEN [queue |-> q \o values, err |-> NoError]
    ELSE [queue |-> q \o SubSeq(values, 1, room), err |-> ErrQueueFull]

\* QueueRetained (lines 408-422), in any order of the values found; an
\* error ends the connection
QueueRetained(c, f) ==
    /\ fatal = NoFatal
    /\ pc[c] = "connected"
    /\ LET s == csess[c] IN
       \E values \in Orders(Search(f)) :
          LET r == QueueValues(sessions[s].queue, values)
              n == Len(r.queue) - Len(sessions[s].queue)
          IN /\ sessions' = [sessions EXCEPT ![s].queue = r.queue]
             /\ appended' = [appended EXCEPT ![s] = @ \o
                    [i \in 1..n |-> Entry(sessions, s, values[i], "QueueRetained")]]
             /\ ret' = [ret EXCEPT ![c] = [NoRet EXCEPT !.op = "QueueRetained",
                                                        !.err = r.err]]
             /\ pc' = [pc EXCEPT ![c] = IF r.err = NoError THEN "connected"
                                        ELSE "queue_failed"]
    /\ UNCHANGED <<codecVars, engineVars, SessionQueueSize, Credentials, closer,
                   cid, clean, csess, wait, pub, activeClients,
                   storedSessions, temporarySessions, retainedMessages,
                   globalMutex, setupMutex, closing, fatal, nextMsg, dequeued,
                   lastSetup>>

(***************************************************************************)
(* The connection-close signal and Authenticate.                           *)
(***************************************************************************)
\* the client engine closes the channel it passes to Dequeue: the connection
\* is going down and the client starts no further call but Dequeue and
\* Terminate
CloseConnection(c) ==
    /\ fatal = NoFatal
    /\ pc[c] = "connected"
    /\ pc' = [pc EXCEPT ![c] = "conn_closed"]
    /\ UNCHANGED <<codecVars, engineVars, SessionQueueSize, Credentials, closer, cid, clean, csess, ret,
                   wait, pub, sessions, activeClients, storedSessions,
                   temporarySessions, retainedMessages, globalMutex, setupMutex,
                   closing, fatal, nextMsg, appended, dequeued, lastSetup>>

\* mutant of ClosedResult: the closed channel is reported as a kill
ClosedResultKilled == [NoRet EXCEPT !.op = "Dequeue", !.err = ErrKilled]

\* Dequeue, line 381: no message, no ack and no error
ClosedResult == [NoRet EXCEPT !.op = "Dequeue"]

\* Dequeue returns no message, no ack and no error once the channel it was
\* given is closed (lines 380-381); the client then stops and will call
\* Terminate
DequeueClosed(c) ==
    /\ fatal = NoFatal
    /\ pc[c] = "conn_closed"
    /\ pc' = [pc EXCEPT ![c] = "stopped"]
    /\ ret' = [ret EXCEPT ![c] = ClosedResult]
    /\ UNCHANGED <<codecVars, engineVars, SessionQueueSize, Credentials, closer, cid, clean, csess,
                   wait, pub, sessions, activeClients, storedSessions,
                   temporarySessions, retainedMessages, globalMutex, setupMutex,
                   closing, fatal, nextMsg, appended, dequeued, lastSetup>>

\* mutant of AuthenticateResult: the closing flag is not looked at
AuthenticateWhileClosing(user, password) ==
    IF Credentials.nil THEN [ok |-> TRUE, err |-> NoError]
    ELSE [ok |-> <<user, password>> \in Credentials.map, err |-> NoError]

\* mutant of AuthenticateResult: the password is not compared
AuthenticateAnyPassword(user, password) ==
    IF closing THEN [ok |-> FALSE, err |-> ErrClosing]
    ELSE IF Credentials.nil THEN [ok |-> TRUE, err |-> NoError]
    ELSE [ok |-> \E e \in Credentials.map : e[1] = user, err |-> NoError]

\* Authenticate, lines 222-237: what the call returns
AuthenticateResult(user, password) ==
    IF closing THEN [ok |-> FALSE, err |-> ErrClosing]
    ELSE IF Credentials.nil THEN [ok |-> TRUE, err |-> NoError]
    ELSE [ok |-> <<user, password>> \in Credentials.map, err |-> NoError]

\* Authenticate (lines 217-238), called for a connection before its Setup; a
\* connection that is not let in is closed
Authenticate(c, user, password) ==
    /\ fatal = NoFatal
    /\ pc[c] = "new"
    /\ NextClient(c)
    /\ globalMutex = Free
    /\ LET r == AuthenticateResult(user, password) IN
       /\ ret' = [ret EXCEPT ![c] = [NoRet EXCEPT !.op = "Authenticate",
                                                  !.ok = r.ok, !.err = r.err,
                                                  !.user = user,
                                                  !.password = password]]
       /\ pc' = [pc EXCEPT ![c] = IF r.ok THEN "new" ELSE "auth_failed"]
    /\ UNCHANGED <<codecVars, engineVars, SessionQueueSize, Credentials, closer, cid, clean, csess,
                   wait, pub, sessions, activeClients, storedSessions,
                   temporarySessions, retainedMessages, globalMutex, setupMutex,
                   closing, fatal, nextMsg, appended, dequeued, lastSetup>>

(***************************************************************************)
(* Close.                                                                  *)
(***************************************************************************)
\* mutant of CloseTargets: the stored sessions are left out
CloseTemporaryOnly == TemporarySet

\* Close, lines 506-518: the sessions whose kill channel Close closes and whose
\* done channel it puts on its list: every temporary session and the stored
\* sessions that have an owner
CloseTargets ==
    TemporarySet \cup {s \in StoredSet : sessions[s].owner # NoClient}

\* the done channel of s as it is now
DoneOf(s) == [sess |-> s, gen |-> sessions[s].gen]

\* Close, lines 508 and 515: close(sess.kill) for the sessions of order, one
\* after the other, up to the first whose kill channel is closed already
RECURSIVE CloseKills(_, _)
CloseKills(order, ss) ==
    IF order = <<>> THEN [sessions |-> ss, panic |-> FALSE]
    ELSE IF ss[Head(order)].kill THEN [sessions |-> ss, panic |-> TRUE]
    ELSE CloseKills(Tail(order), [ss EXCEPT ![Head(order)].kill = TRUE])

\* Close, lines 524-541: what the call returns; timeout says that the timer
\* fired while Close waited for a done channel
CloseResult(timeout) == ~timeout

\* Close (lines 496-526) is called, locks globalMutex, sets closing, closes the
\* kill channels in any order of the maps, the temporary sessions first,
\* unlocks and returns true when it has no done channel to wait for; the
\* close of a closed kill channel panics with globalMutex locked
Close ==
    /\ fatal = NoFatal
    /\ closer.pc \in {"idle", "returned"}
    /\ closer.calls < MaxCloses
    /\ globalMutex = Free
    /\ closing' = TRUE
    /\ \E o1 \in Orders(CloseTargets \cap TemporarySet),
          o2 \in Orders(CloseTargets \ TemporarySet) :
          LET r == CloseKills(o1 \o o2, sessions)
              list == [i \in 1..Len(o1 \o o2) |-> DoneOf((o1 \o o2)[i])]
              owned == {DoneOf(s) : s \in {t \in TemporarySet \cup StoredSet :
                                             sessions[t].owner # NoClient}}
          IN /\ sessions' = r.sessions
             /\ IF r.panic
                THEN /\ closer' = [closer EXCEPT !.pc = "crashed", !.list = <<>>,
                                                 !.ret = "none", !.owned = owned,
                                                 !.calls = @ + 1]
                     /\ fatal' = PanicClose
                     /\ globalMutex' = Closer
                ELSE /\ closer' = [pc |-> IF list = <<>> THEN "returned"
                                          ELSE "close_wait",
                                   list |-> list,
                                   ret |-> IF list = <<>> THEN CloseResult(FALSE)
                                           ELSE "none",
                                   owned |-> owned,
                                   calls |-> closer.calls + 1]
                     /\ fatal' = fatal
                     /\ globalMutex' = Free
    /\ UNCHANGED <<codecVars, engineVars, SessionQueueSize, Credentials, pc, cid, clean, csess, ret,
                   wait, pub, activeClients, storedSessions, temporarySessions,
                   retainedMessages, setupMutex, nextMsg, appended, dequeued,
                   lastSetup>>

\* Close receives from the done channel it waits for (lines 532-535) and
\* returns true after the last of its list (line 541)
CloseWaitDone ==
    /\ fatal = NoFatal
    /\ closer.pc = "close_wait"
    /\ DoneClosed(Head(closer.list))
    /\ closer' = IF Tail(closer.list) = <<>>
                 THEN [closer EXCEPT !.pc = "returned", !.list = <<>>,
                                     !.ret = CloseResult(FALSE)]
                 ELSE [closer EXCEPT !.list = Tail(@)]
    /\ UNCHANGED <<codecVars, engineVars, SessionQueueSize, Credentials, pc, cid, clean, csess, ret,
                   wait, pub, sessions, activeClients, storedSessions,
                   temporarySessions, retainedMessages, globalMutex, setupMutex,
                   closing, fatal, nextMsg, appended, dequeued, lastSetup>>

\* the timer fires while Close waits for a done channel that is not closed,
\* and Close returns false (lines 536-537); going through the done channels
\* that are closed takes Close no time
CloseTimeout ==
    /\ fatal = NoFatal
    /\ closer.pc = "close_wait"
    /\ ~DoneClosed(Head(closer.list))
    /\ closer' = [closer EXCEPT !.pc = "returned", !.ret = CloseResult(TRUE)]
    /\ UNCHANGED <<codecVars, engineVars, SessionQueueSize, Credentials, pc, cid, clean, csess, ret,
                   wait, pub, sessions, activeClients, storedSessions,
                   temporarySessions, retainedMessages, globalMutex, setupMutex,
                   closing, fatal, nextMsg, appended, dequeued, lastSetup>>

(***************************************************************************)
(* The client engine: the connections of one client id, its session and    *)
(* the tracker of the connection.  The client follows the protocol: it     *)
(* acknowledges packets it was sent and does not reuse a packet id of an   *)
(* exchange the connection still tracks.                                   *)
(***************************************************************************)
\* mutant of Resend: the stored packets are written as they were stored
RECURSIVE ResendUnchanged(_, _)
ResendUnchanged(out, i) ==
    IF i > MaxPacketId THEN <<>>
    ELSE (IF out[i].type = "none" THEN <<>> ELSE <<out[i]>>)
         \o ResendUnchanged(out, i + 1)

\* mutant of Resend: every stored packet is written as the PUBLISH it began as
RECURSIVE ResendPublishes(_, _)
ResendPublishes(out, i) ==
    IF i > MaxPacketId THEN <<>>
    ELSE (IF out[i].type = "none" THEN <<>>
          ELSE <<Packet("PUBLISH", out[i].id, 2, TRUE)>>)
         \o ResendPublishes(out, i + 1)

\* redelivery on reconnect: the entries of the outgoing session map from id i
\* on, in packet id order, a PUBLISH with DUP=1, a PUBREL as PUBREL
RECURSIVE Resend(_, _)
Resend(out, i) ==
    IF i > MaxPacketId THEN <<>>
    ELSE (IF out[i].type = "none" THEN <<>>
          ELSE IF out[i].type = "PUBLISH" THEN <<[out[i] EXCEPT !.dup = TRUE]>>
          ELSE <<out[i]>>)
         \o Resend(out, i + 1)

\* Connecting: CONNECT is received, the backend sets the session up (a clean
\* or unknown session is fresh, a stored one is resumed), CONNACK is sent
\* with session present = resumed, the stored outgoing packets are resent and
\* the connection is Connected with a tracker of its own
Connect(cl) ==
    /\ state = "Closed"
    /\ connections < MaxConnections
    /\ LET resumed == sessionStored /\ ~cl
           out == IF resumed THEN outgoing ELSE [i \in PacketIds |-> NoPacket]
       IN /\ outgoing' = out
          /\ incoming' = IF resumed THEN incoming ELSE {}
          /\ packetID' = IF resumed THEN packetID ELSE 1
          /\ written' = <<Connack(resumed)>> \o Resend(out, 1)
    /\ sessionStored' = ~cl
    /\ cleanSession' = cl
    /\ state' = "Connected"
    /\ publishTokens' = {}
    /\ inflightTokens' = {}
    /\ reader' = NoWork
    /\ dequeuer' = NoWork
    /\ connections' = connections + 1
    /\ subscription' = IF sessionStored /\ ~cl THEN subscription
                       ELSE NoSubscription
    /\ UNCHANGED <<codecVars, backendVars, delivered, ClientParallelPublishes,
                   ClientInflightMessages>>

\* the connection ends with an error: the tracker goes with it, the session
\* stays as it is
Die(who) ==
    /\ state' = "Closed"
    /\ publishTokens' = {}
    /\ inflightTokens' = {}
    /\ reader' = IF who = "reader" THEN [reader EXCEPT !.pc = "token_timeout"]
                 ELSE NoWork
    /\ dequeuer' = IF who = "dequeuer"
                   THEN [dequeuer EXCEPT !.pc = "token_timeout"]
                   ELSE NoWork
    /\ UNCHANGED <<codecVars, backendVars, subscription, delivered, ClientParallelPublishes, ClientInflightMessages,
                   cleanSession, sessionStored, outgoing, incoming, packetID,
                   written, connections>>

\* DISCONNECT is received or the connection is lost
Disconnect ==
    /\ state = "Connected"
    /\ Die("none")

\* mutant of PublishAdmitted: the token of a QoS 2 publish is released when
\* PUBREC is sent
PublishAdmittedReleases(id, qos) ==
    [tokens |-> publishTokens,
     incoming |-> IF qos = 2 THEN incoming \cup {id} ELSE incoming,
     packet |-> Packet(IF qos = 2 THEN "PUBREC" ELSE "PUBACK", id, 0, FALSE)]

\* inbound PUBLISH with a publish token.  QoS 1: the message is delivered,
\* PUBACK is sent and the token released.  QoS 2: the publish is kept in the
\* incoming session map, PUBREC is sent and the exchange keeps the token
\* until PUBREL
PublishAdmitted(id, qos) ==
    [tokens |-> IF qos = 2 THEN publishTokens \cup {id} ELSE publishTokens,
     incoming |-> IF qos = 2 THEN incoming \cup {id} ELSE incoming,
     packet |-> Packet(IF qos = 2 THEN "PUBREC" ELSE "PUBACK", id, 0, FALSE)]

\* a publish token is free
PublishTokenFree == Cardinality(publishTokens) < ClientParallelPublishes

\* the reader has the token for the PUBLISH id
ProcessPublish(id, qos) ==
    LET r == PublishAdmitted(id, qos) IN
    /\ publishTokens' = r.tokens
    /\ incoming' = r.incoming
    /\ written' = Append(written, r.packet)
    /\ reader' = NoWork
    /\ UNCHANGED <<codecVars, backendVars, subscription, delivered, ClientParallelPublishes, ClientInflightMessages,
                   state, cleanSession, sessionStored, outgoing, packetID,
                   inflightTokens, dequeuer, connections>>

\* the reader decodes a QoS 1 or QoS 2 PUBLISH of the client and acquires a
\* publish token, or waits for one
ReadPublish(id, qos) ==
    /\ state = "Connected"
    /\ reader.pc = "idle"
    /\ id \notin publishTokens
    /\ Len(written) < MaxWritten
    /\ IF PublishTokenFree THEN ProcessPublish(id, qos)
       ELSE /\ reader' = [pc |-> "wait_token", id |-> id, qos |-> qos]
            /\ UNCHANGED <<codecVars, backendVars, subscription, delivered, ClientParallelPublishes,
                           ClientInflightMessages, state, cleanSession,
                           sessionStored, outgoing, incoming, packetID,
                           publishTokens, inflightTokens, dequeuer, written,
                           connections>>

\* the reader's wait for a publish token ends: it gets a token that was
\* released, or client_token_timeout has elapsed and the connection dies
PublishTokenWait ==
    /\ state = "Connected"
    /\ reader.pc = "wait_token"
    /\ IF PublishTokenFree THEN ProcessPublish(reader.id, reader.qos)
       ELSE Die("reader")

\* PUBREL: the message is delivered, PUBCOMP is sent, the persisted publish
\* deleted and the token released; an unknown id is answered with PUBCOMP too
ReadPubrel(id) ==
    /\ state = "Connected"
    /\ reader.pc = "idle"
    /\ Len(written) < MaxWritten
    /\ written' = Append(written, Packet("PUBCOMP", id, 0, FALSE))
    /\ incoming' = incoming \ {id}
    /\ publishTokens' = publishTokens \ {id}
    /\ UNCHANGED <<codecVars, backendVars, subscription, delivered, ClientParallelPublishes, ClientInflightMessages,
                   state, cleanSession, sessionStored, outgoing, packetID,
                   inflightTokens, reader, dequeuer, connections>>

\* PUBACK or PUBCOMP for the id: the entry is deleted from the session
OutgoingAcked(id) == [outgoing EXCEPT ![id] = NoPacket]

\* PUBACK for an outbound QoS 1 publish: delete it from the session, release
\* the token
ReadPuback(id) ==
    /\ state = "Connected"
    /\ reader.pc = "idle"
    /\ outgoing[id].type = "PUBLISH" /\ outgoing[id].qos = 1
    /\ outgoing' = OutgoingAcked(id)
    /\ inflightTokens' = inflightTokens \ {id}
    /\ UNCHANGED <<codecVars, backendVars, subscription, delivered, ClientParallelPublishes, ClientInflightMessages,
                   state, cleanSession, sessionStored, incoming, packetID,
                   publishTokens, reader, dequeuer, written, connections>>

\* mutant of PubrecReceived: the entry stays the PUBLISH
PubrecReceivedKeepsPublish(id) == outgoing[id]

\* PUBREC for the id: the entry of the outgoing session map becomes a PUBREL
PubrecReceived(id) == Packet("PUBREL", id, 0, FALSE)

\* PUBREC for an outbound QoS 2 publish: the entry is rewritten to PUBREL and
\* PUBREL is sent
ReadPubrec(id) ==
    /\ state = "Connected"
    /\ reader.pc = "idle"
    /\ outgoing[id].type = "PUBLISH" /\ outgoing[id].qos = 2
    /\ outgoing' = [outgoing EXCEPT ![id] = PubrecReceived(id)]
    /\ written' = Append(written, Packet("PUBREL", id, 0, FALSE))
    /\ UNCHANGED <<codecVars, backendVars, subscription, delivered, ClientParallelPublishes, ClientInflightMessages,
                   state, cleanSession, sessionStored, incoming, packetID,
                   publishTokens, inflightTokens, reader, dequeuer,
                   connections>>

\* PUBCOMP for an outbound PUBREL: delete it from the session, release the
\* token
ReadPubcomp(id) ==
    /\ state = "Connected"
    /\ reader.pc = "idle"
    /\ outgoing[id].type = "PUBREL"
    /\ outgoing' = OutgoingAcked(id)
    /\ inflightTokens' = inflightTokens \ {id}
    /\ UNCHANGED <<codecVars, backendVars, subscription, delivered, ClientParallelPublishes, ClientInflightMessages,
                   state, cleanSession, sessionStored, incoming, packetID,
                   publishTokens, reader, dequeuer, written, connections>>

\* an inflight token is free
InflightTokenFree == Cardinality(inflightTokens) < ClientInflightMessages

\* the dequeuer has the token for a QoS 1 or QoS 2 message: the publish gets
\* the next packet id, is stored in the outgoing session map and written
\* with DUP=0
SendPublish(qos) ==
    /\ inflightTokens' = inflightTokens \cup {packetID}
    /\ outgoing' = [outgoing EXCEPT
                      ![packetID] = Packet("PUBLISH", packetID, qos, FALSE)]
    /\ written' = Append(written, Packet("PUBLISH", packetID, qos, FALSE))
    /\ packetID' = packetID + 1
    /\ dequeuer' = NoWork
    /\ UNCHANGED <<codecVars, backendVars, subscription,
                   ClientParallelPublishes, ClientInflightMessages,
                   state, cleanSession, sessionStored, incoming, publishTokens,
                   reader, connections>>

\* lower(a, b), the lower of two QoS levels
lower(a, b) == IF a < b THEN a ELSE b

\* mutant of DeliveryQOS: the message is written at its own QoS
DeliveryQOSOfMessage(mq) == mq

\* the QoS the dequeuer writes a message of QoS mq at: the minimum of the
\* message QoS and the QoS of the subscription, the message QoS when the
\* session holds no subscription
DeliveryQOS(mq) ==
    IF subscription.on THEN lower(mq, subscription.qos) ELSE mq

\* SUBSCRIBE is received: the subscription is saved in the session with the
\* QoS that is granted, the one requested
SubscribeQOS(qos) ==
    /\ state = "Connected"
    /\ subscription' = [on |-> TRUE, qos |-> qos]
    /\ UNCHANGED <<codecVars, backendVars, delivered, ClientParallelPublishes,
                   ClientInflightMessages, state, cleanSession, sessionStored,
                   outgoing, incoming, packetID, publishTokens, inflightTokens,
                   reader, dequeuer, written, connections>>

\* the dequeuer obtains the next message of the session queue, of QoS mq, and
\* lowers it to the QoS of the subscription: QoS 0 is written at once, QoS 1
\* and QoS 2 acquire an inflight token or wait for one
Dequeue(mq) ==
    /\ state = "Connected"
    /\ dequeuer.pc = "idle"
    /\ Len(written) < MaxWritten
    /\ delivered' = [on |-> TRUE, message |-> mq, granted |-> subscription]
    /\ LET qos == DeliveryQOS(mq) IN
       IF qos = 0
       THEN /\ written' = Append(written, Packet("PUBLISH", 0, 0, FALSE))
            /\ UNCHANGED <<codecVars, backendVars, subscription,
                           ClientParallelPublishes,
                           ClientInflightMessages, state, cleanSession,
                           sessionStored, outgoing, incoming, packetID,
                           publishTokens, inflightTokens, reader, dequeuer,
                           connections>>
       ELSE /\ packetID <= MaxPacketId
            /\ IF InflightTokenFree THEN SendPublish(qos)
               ELSE /\ dequeuer' = [pc |-> "wait_token", id |-> 0, qos |-> qos]
                    /\ UNCHANGED <<codecVars, backendVars, subscription,
                                   ClientParallelPublishes,
                                   ClientInflightMessages, state, cleanSession,
                                   sessionStored, outgoing, incoming, packetID,
                                   publishTokens, inflightTokens, reader,
                                   written, connections>>

\* the dequeuer's wait for an inflight token ends: it gets a token that was
\* released, or client_token_timeout has elapsed and the connection dies
InflightTokenWait ==
    /\ state = "Connected"
    /\ dequeuer.pc = "wait_token"
    /\ IF InflightTokenFree
       THEN SendPublish(dequeuer.qos) /\ UNCHANGED delivered
       ELSE Die("dequeuer")

(***************************************************************************)
(* The SUBACK codec.  A byte slice is a sequence of numbers 0..255; src[i]  *)
(* of the code is element i + 1.                                           *)
(***************************************************************************)
\* the message type of SUBACK and the flags of its fixed header
SUBACK == 9
SubackFlags == 0
\* return code of a failed subscription
QOSFailure == 128
\* largest remaining length the fixed header can carry
MaxRemainingLength == 268435455

validQOS(code) == code \in {0, 1, 2}

\* the remaining length as a variable-length integer: 7 bits a byte, the top
\* bit set when another byte follows
RECURSIVE EncodeVarint(_)
EncodeVarint(n) ==
    IF n < 128 THEN <<n>> ELSE <<(n % 128) + 128>> \o EncodeVarint(n \div 128)

\* the variable-length integer at src[pos..], k bytes of it read so far: its
\* value and length, or a failure when the slice ends or a fourth byte has
\* the top bit set
RECURSIVE DecodeVarint(_, _, _)
DecodeVarint(src, pos, k) ==
    IF pos > Len(src) THEN [ok |-> FALSE, value |-> 0, n |-> k]
    ELSE IF src[pos] < 128
    THEN [ok |-> TRUE, value |-> src[pos] * (128 ^ k), n |-> k + 1]
    ELSE IF k = 3 THEN [ok |-> FALSE, value |-> 0, n |-> k + 1]
    ELSE LET r == DecodeVarint(src, pos + 1, k + 1) IN
         [r EXCEPT !.value = (src[pos] - 128) * (128 ^ k) + r.value]

\* headerLen(rl): the type byte and the bytes of the remaining length
headerLen(rl) == 1 + Len(EncodeVarint(rl))

\* headerEncode(dst, flags, rl, tl, mt): fails when dst is shorter than the
\* total length tl or rl is too large, else writes the fixed header
headerEncode(dst, flags, rl, tl, mt) ==
    IF Len(dst) < tl \/ rl > MaxRemainingLength
    THEN [n |-> 0, err |-> TRUE, bytes |-> <<>>]
    ELSE LET h == <<mt * 16 + flags>> \o EncodeVarint(rl) IN
         [n |-> Len(h), err |-> FALSE, bytes |-> h]

\* headerDecode(src, mt): fails on a short slice, a wrong type, wrong flags, a
\* malformed remaining length or one larger than the rest of the slice
headerDecode(src, mt) ==
    IF Len(src) < 2 THEN [hl |-> 0, rl |-> 0, err |-> TRUE]
    ELSE IF src[1] \div 16 # mt \/ src[1] % 16 # SubackFlags
    THEN [hl |-> 1, rl |-> 0, err |-> TRUE]
    ELSE LET v == DecodeVarint(src, 2, 0) IN
         IF ~v.ok THEN [hl |-> 1, rl |-> 0, err |-> TRUE]
         ELSE IF v.value > Len(src) - (1 + v.n)
         THEN [hl |-> 1 + v.n, rl |-> 0, err |-> TRUE]
         ELSE [hl |-> 1 + v.n, rl |-> v.value, err |-> FALSE]

\* sm.len(), lines 312-314, and sm.Len(), lines 230-233
len(m) == 2 + Len(m.ReturnCodes)
MessageLen(m) == headerLen(len(m)) + len(m)

\* bytes written over the start of dst
Written(dst, bytes) == bytes \o SubSeq(dst, Len(bytes) + 1, Len(dst))

\* mutant of SubackEncode: the packet id is written low byte first
SubackEncodeLittleEndian(m, dst) ==
    IF \E i \in 1..Len(m.ReturnCodes) :
          ~validQOS(m.ReturnCodes[i]) /\ m.ReturnCodes[i] # QOSFailure
    THEN [called |-> TRUE, n |-> 0, err |-> TRUE, past |-> FALSE, dst |-> dst]
    ELSE LET h == headerEncode(dst, SubackFlags, len(m), MessageLen(m), SUBACK) IN
         IF h.err
         THEN [called |-> TRUE, n |-> h.n, err |-> TRUE, past |-> FALSE,
               dst |-> dst]
         ELSE LET bytes == h.bytes \o <<m.PacketID % 256, m.PacketID \div 256>>
                           \o m.ReturnCodes
              IN [called |-> TRUE, n |-> Len(bytes), err |-> FALSE,
                  past |-> Len(bytes) > Len(dst), dst |-> Written(dst, bytes)]

\* SubackMessage.Encode, lines 283-309: the bytes written, the error, the
\* buffer after the call, and whether the call wrote past the end of dst
SubackEncode(m, dst) ==
    IF \E i \in 1..Len(m.ReturnCodes) :
          ~validQOS(m.ReturnCodes[i]) /\ m.ReturnCodes[i] # QOSFailure
    THEN [called |-> TRUE, n |-> 0, err |-> TRUE, past |-> FALSE, dst |-> dst]
    ELSE LET h == headerEncode(dst, SubackFlags, len(m), MessageLen(m), SUBACK) IN
         IF h.err
         THEN [called |-> TRUE, n |-> h.n, err |-> TRUE, past |-> FALSE,
               dst |-> dst]
         ELSE LET bytes == h.bytes \o <<m.PacketID \div 256, m.PacketID % 256>>
                           \o m.ReturnCodes
              IN [called |-> TRUE, n |-> Len(bytes), err |-> FALSE,
                  past |-> Len(bytes) > Len(dst), dst |-> Written(dst, bytes)]

\* mutant of SubackDecode: the remaining length is not checked
SubackDecodeAnyLength(m, src) ==
    LET h == headerDecode(src, SUBACK) IN
    IF h.err \/ Len(src) < h.hl + 2
    THEN [called |-> TRUE, n |-> h.hl, err |-> TRUE, past |-> FALSE, sm |-> m]
    ELSE LET id == src[h.hl + 1] * 256 + src[h.hl + 2]
             rcl == IF h.rl < 2 THEN 0 ELSE h.rl - 2
             last == h.hl + 2 + rcl
             codes == SubSeq(src, h.hl + 3, IF last > Len(src) THEN Len(src)
                                            ELSE last)
         IN [called |-> TRUE, n |-> last,
             err |-> \E i \in 1..Len(codes) :
                        ~validQOS(codes[i]) /\ codes[i] # QOSFailure,
             past |-> last > Len(src) \/ h.rl < 2,
             sm |-> [PacketID |-> id, ReturnCodes |-> codes]]

\* SubackMessage.Decode, lines 239-278: the bytes consumed, the error, the
\* message after the call, and whether the call read past the end of src
SubackDecode(m, src) ==
    LET h == headerDecode(src, SUBACK) IN
    IF h.err
    THEN [called |-> TRUE, n |-> h.hl, err |-> TRUE, past |-> FALSE, sm |-> m]
    ELSE IF Len(src) < h.hl + 2
    THEN [called |-> TRUE, n |-> h.hl, err |-> TRUE, past |-> FALSE, sm |-> m]
    ELSE IF h.rl <= 2
    THEN [called |-> TRUE, n |-> h.hl, err |-> TRUE, past |-> FALSE, sm |-> m]
    ELSE LET id == src[h.hl + 1] * 256 + src[h.hl + 2]
             rcl == h.rl - 2
             last == h.hl + 2 + rcl
             codes == SubSeq(src, h.hl + 3, IF last > Len(src) THEN Len(src)
                                            ELSE last)
         IN [called |-> TRUE, n |-> last,
             err |-> \E i \in 1..Len(codes) :
                        ~validQOS(codes[i]) /\ codes[i] # QOSFailure,
             past |-> last > Len(src),
             sm |-> [PacketID |-> id, ReturnCodes |-> codes]]

\* msg.Encode(dst) is called
Encode ==
    /\ ~encoded.called /\ ~decoded.called
    /\ LET r == SubackEncode(sm, buf) IN
       /\ encoded' = [called |-> TRUE, n |-> r.n, err |-> r.err, past |-> r.past]
       /\ buf' = r.dst
    /\ UNCHANGED <<backendVars, engineVars, sm, decoded>>

\* msg.Decode(src) is called on a new message
Decode ==
    /\ ~decoded.called
    /\ LET r == SubackDecode(NewSubackMessage, buf) IN
       /\ decoded' = [called |-> TRUE, n |-> r.n, err |-> r.err, past |-> r.past,
                      sm |-> r.sm]
    /\ UNCHANGED <<backendVars, engineVars, sm, buf, encoded>>

(***************************************************************************)
(* The specification: clients connect, subscribe, publish, dequeue and     *)
(* terminate concurrently until the process dies.                          *)
(***************************************************************************)
\* the token pool capacities as the tests set them, and no SUBACK at hand
TestTokens ==
    /\ ClientParallelPublishes = 1 /\ ClientInflightMessages = 1
    /\ sm = NewSubackMessage /\ buf = <<>>

\* connections that are set up or being set up
Open == {c \in Clients : pc[c] \notin {"new", "closed", "setup_failed", "crashed"}}

\* takeover: all connections at a time, one filter, one topic, few messages
Init ==
    /\ InitState /\ SessionQueueSize = 1 /\ Credentials = NoCredentials
    /\ TestTokens

Next ==
    \E c \in Clients :
        \/ \E con \in Connects : Setup(c, con[1], con[2])
        \/ SetupLocked(c)
        \/ SetupWaitDone(c)
        \/ SetupWaitTimeout(c)
        \/ SetupUnlockGlobal(c)
        \/ SetupRelock(c)
        \/ Subscribe(c, <<"a", "#">>)
        \/ nextMsg <= TakeoverMsgs /\ Publish(c, <<"a", "b">>)
        \/ PublishResume(c)
        \/ DequeueMessage(c)
        \/ DequeueKilled(c)
        \/ Terminate(c)

Spec == Init /\ [][Next]_vars

\* routing: fewer connections at a time, all filters, topics and queue sizes
InitRoute ==
    /\ InitState
    /\ SessionQueueSize \in 1..MaxQueueSize
    /\ Credentials = NoCredentials
    /\ TestTokens

NextRoute ==
    \E c \in Clients :
        \/ \E con \in Connects :
              Cardinality(Open) < RouteOpen /\ Setup(c, con[1], con[2])
        \/ SetupLocked(c)
        \/ SetupWaitDone(c)
        \/ SetupWaitTimeout(c)
        \/ SetupUnlockGlobal(c)
        \/ SetupRelock(c)
        \/ \E f \in Filters : Subscribe(c, f)
        \/ \E t \in Topics : nextMsg <= RouteMsgs /\ Publish(c, t)
        \/ PublishResume(c)
        \/ DequeueMessage(c)
        \/ DequeueKilled(c)
        \/ Terminate(c)

SpecRoute == InitRoute /\ [][NextRoute]_vars

\* retained messages: connections with a zero-length id store, clear and
\* queue them next to their Publish and Dequeue calls
NextRetained ==
    \E c \in Clients :
        \/ c <= RetainedClients /\ Setup(c, "", TRUE)
        \/ Subscribe(c, <<"a", "#">>)
        \/ \E t \in Topics : nextMsg <= RetainedMsgs /\ StoreRetained(c, t, "p")
        \/ \E t \in Topics : ClearRetained(c, t)
        \/ \E f \in Filters :
              /\ csess[c] # NoSession
              /\ Len(appended[csess[c]]) < RetainedAppends
              /\ QueueRetained(c, f)
        \/ nextMsg <= RetainedMsgs /\ Publish(c, <<"a", "b">>)
        \/ PublishResume(c)
        \/ DequeueMessage(c)
        \/ Terminate(c)

SpecRetained == Init /\ [][NextRetained]_vars

\* retained store: connections store messages with and without payload,
\* clear them and queue them with filters that match one topic or all
NextStore ==
    \E c \in Clients :
        \/ c <= StoreClients /\ Setup(c, "", TRUE)
        \/ \E t \in Topics, p \in Payloads :
              nextMsg <= StoreMsgs /\ StoreRetained(c, t, p)
        \/ \E t \in Topics : ClearRetained(c, t)
        \/ \E f \in RetainedFilters :
              /\ csess[c] # NoSession
              /\ Len(appended[csess[c]]) < StoreAppends
              /\ QueueRetained(c, f)
        \/ DequeueMessage(c)
        \/ Terminate(c)

SpecStore == InitRoute /\ [][NextStore]_vars

\* close: the backend is closed while connections are set up, taken over,
\* publish, dequeue and go down; the publisher is the last client
InitClose == Init

NextClose ==
    \/ \E c \in Clients :
        \/ Authenticate(c, "u", "p")
        \/ \E con \in Connects :
              Cardinality(Open) < CloseOpen /\ Setup(c, con[1], con[2])
        \/ SetupLocked(c)
        \/ SetupWaitDone(c)
        \/ SetupWaitTimeout(c)
        \/ SetupUnlockGlobal(c)
        \/ SetupRelock(c)
        \/ Subscribe(c, <<"a", "#">>)
        \/ c = NumClients /\ nextMsg <= CloseMsgs /\ Publish(c, <<"a", "b">>)
        \/ PublishResume(c)
        \/ DequeueMessage(c)
        \/ DequeueKilled(c)
        \/ CloseConnection(c)
        \/ DequeueClosed(c)
        \/ Terminate(c)
    \/ Close
    \/ CloseWaitDone
    \/ CloseTimeout

SpecClose == InitClose /\ [][NextClose]_vars

\* authenticate: m.Credentials is nil or a map; connections are let in or
\* not while others are set up, taken over and go down and the backend is
\* closed
InitAuth ==
    /\ InitState /\ SessionQueueSize = 1 /\ Credentials \in CredentialMaps
    /\ TestTokens

NextAuth ==
    \/ \E c \in Clients :
        \/ \E user \in AuthUsers, password \in AuthPasswords :
              Authenticate(c, user, password)
        \/ \E con \in Connects :
              Cardinality(Open) < AuthOpen /\ Setup(c, con[1], con[2])
        \/ SetupLocked(c)
        \/ SetupWaitDone(c)
        \/ SetupWaitTimeout(c)
        \/ SetupUnlockGlobal(c)
        \/ SetupRelock(c)
        \/ DequeueKilled(c)
        \/ Terminate(c)
    \/ Close
    \/ CloseWaitDone
    \/ CloseTimeout

SpecAuth == InitAuth /\ [][NextAuth]_vars

\* unsubscribe: connections with the id "a" and a stored session, and
\* connections without id, subscribe, unsubscribe, publish, dequeue, go down
\* and come back
NextUnsub ==
    \E c \in Clients :
        \/ \E con \in {<<"a", FALSE>>, <<"", TRUE>>} :
              Cardinality(Open) < UnsubOpen /\ Setup(c, con[1], con[2])
        \/ SetupLocked(c)
        \/ SetupWaitDone(c)
        \/ SetupWaitTimeout(c)
        \/ SetupUnlockGlobal(c)
        \/ SetupRelock(c)
        \/ \E f \in Filters : Subscribe(c, f)
        \/ \E f \in Filters : Unsubscribe(c, f)
        \/ \E t \in Topics : nextMsg <= UnsubMsgs /\ Publish(c, t)
        \/ PublishResume(c)
        \/ DequeueMessage(c)
        \/ DequeueKilled(c)
        \/ Terminate(c)

SpecUnsub == Init /\ [][NextUnsub]_vars

\* SUBACK codec: a message is encoded into a zeroed buffer of any length and
\* the buffer decoded, or a byte slice is decoded as it came
InitCodec ==
    /\ InitState /\ SessionQueueSize = 1 /\ Credentials = NoCredentials
    /\ ClientParallelPublishes = 1 /\ ClientInflightMessages = 1
    /\ \/ /\ sm \in [PacketID : SubackIds,
                      ReturnCodes : SeqsUpTo(SubackCodes, MaxCodes)]
          /\ buf \in {[i \in 1..k |-> 0] : k \in 0..MaxDstLen}
       \/ /\ sm = NewSubackMessage
          /\ buf \in SeqsUpTo(SrcBytes, MaxSrcLen)

NextCodec == Encode \/ Decode

SpecCodec == InitCodec /\ [][NextCodec]_vars

\* client engine: one client id connects, publishes, is sent messages,
\* acknowledges or not, disconnects and connects again, clean or not
InitEngine ==
    /\ InitState /\ SessionQueueSize = 1 /\ Credentials = NoCredentials
    /\ ClientParallelPublishes \in 1..MaxTokens
    /\ ClientInflightMessages \in 1..MaxTokens
    /\ sm = NewSubackMessage /\ buf = <<>>

NextEngine ==
    \/ \E cl \in BOOLEAN : Connect(cl)
    \/ Disconnect
    \/ \E id \in InboundIds, qos \in {1, 2} : ReadPublish(id, qos)
    \/ PublishTokenWait
    \/ \E id \in InboundIds : ReadPubrel(id)
    \/ \E id \in PacketIds :
          \/ ReadPuback(id)
          \/ ReadPubrec(id)
          \/ ReadPubcomp(id)
    \/ \E mq \in {0, 1, 2} : Dequeue(mq)
    \/ InflightTokenWait

SpecEngine == InitEngine /\ [][NextEngine]_vars

\* delivery: the session subscribes at any QoS and the dequeuer obtains
\* messages of any QoS, over connections that resume the session or not
NextDeliver ==
    \/ \E cl \in BOOLEAN : Connect(cl)
    \/ Disconnect
    \/ \E qos \in {0, 1, 2} : SubscribeQOS(qos)
    \/ \E id \in PacketIds :
          \/ ReadPuback(id)
          \/ ReadPubrec(id)
          \/ ReadPubcomp(id)
    \/ \E mq \in {0, 1, 2} : Dequeue(mq)
    \/ InflightTokenWait

SpecDeliver == InitEngine /\ [][NextDeliver]_vars

TypeOK ==
    /\ globalMutex \in Clients \cup {Free, Closer}
    /\ setupMutex \in Clients \cup {Free}
    /\ DOMAIN appended = DOMAIN sessions
    /\ DOMAIN dequeued = DOMAIN sessions
    /\ \A s \in 1..Len(sessions) : Len(sessions[s].queue) <= SessionQueueSize

(***************************************************************************)
(* Claims.                                                                 *)
(***************************************************************************)
\* the clients that own the session they were set up with under the id
OwnersOf(id) ==
    {c \in Clients : /\ cid[c] = id
                     /\ csess[c] # NoSession
                     /\ sessions[csess[c]].owner = c}

\* the sessions the backend holds for the id: the stored one and the
\* temporary one of the client registered under the id
SessionsFor(id) ==
    {storedSessions[id]}
    \cup (IF activeClients[id] = NoClient THEN {}
          ELSE {temporarySessions[activeClients[id]]})

\* a step in which the Setup call of c returns a session
SetupReturns(c) ==
    /\ pc[c] \in {"new", "setup_lockS", "setup_relock"}
    /\ pc'[c] = "connected"

\* C1: a Setup that takes over the session of an owner who terminates before
\* the kill timeout returns with the new client as owner: once it has received
\* the done signal it is never left waiting for globalMutex while the call
\* that holds globalMutex waits for the setupMutex this Setup holds
C1_TakeoverCompletes ==
    \A n \in Clients :
        pc[n] = "setup_relock" =>
            ~(globalMutex # Free /\ pc[globalMutex] = "setup_lockS")

\* C2: Setup returns resumed=true if and only if the id is non-empty, the
\* client did not request a clean session and a stored session for the id
\* exists when Setup gets to it, after any takeover; the session returned is
\* then that stored session, and every other successful Setup returns
\* resumed=false
C2_ResumedIff ==
    [][\A c \in Clients :
          SetupReturns(c) =>
             LET id == cid'[c]
                 stored == IF id = "" THEN NoSession ELSE storedSessions[id]
             IN /\ ret'[c].resumed = (id # "" /\ ~clean'[c] /\ stored # NoSession)
                /\ ret'[c].resumed => csess'[c] = stored
                /\ ret'[c].err = NoError]_vars

\* C2 witness: a Setup has returned resumed=true for a session that holds a
\* subscription of an earlier connection, and another Setup resumed=false
C2_Witness ==
    \E c, d \in Clients :
        /\ pc[c] = "connected" /\ ret[c].op = "Setup" /\ ret[c].resumed
        /\ sessions[csess[c]].subs # {} /\ sessions[csess[c]].gen > 0
        /\ pc[d] = "connected" /\ ret[d].op = "Setup" /\ ~ret[d].resumed

\* C3: when the takeover wait of a Setup ends with the kill timeout, the call
\* returns ErrKillTimeout, the new client owns no session, and the sessions,
\* activeClients and storedSessions are as they were, so that the victim still
\* owns its session
C3_KillTimeout ==
    [][\A c \in Clients :
          /\ (pc[c] = "setup_wait" /\ pc'[c] = "setup_unlockG") =>
                UNCHANGED <<sessions, activeClients, storedSessions, csess>>
          /\ (pc[c] = "setup_unlockG" /\ pc'[c] # "setup_unlockG") =>
                /\ pc'[c] = "setup_failed"
                /\ ret'[c].op = "Setup" /\ ret'[c].err = ErrKillTimeout
                /\ csess'[c] = NoSession
                /\ UNCHANGED <<sessions, activeClients, storedSessions>>]_vars

\* C4: in every reachable state at most one client owns a session of a
\* non-empty client id, whether the session is the stored one or the
\* temporary one of the registered client, also while Setup calls for the id
\* run concurrently
C4_OneOwnerPerId ==
    \A id \in StoredIds :
        /\ Cardinality(OwnersOf(id)) <= 1
        /\ Cardinality({sessions[s].owner : s \in SessionsFor(id) \ {NoSession}}
                       \ {NoClient}) <= 1

\* C4 witness: a takeover is waiting for the owner of the id's session
\* while another Setup for the same id has been called
C4_Witness ==
    \E v, n, b \in Clients :
        /\ pc[n] = "setup_wait" /\ cid[n] = "a"
        /\ pc[b] = "setup_lockS" /\ cid[b] = "a"
        /\ OwnersOf("a") = {v}

\* the messages appended to the queue of s, in the order of the appends
AppendedMsgs(s) == [i \in 1..Len(appended[s]) |-> appended[s][i].msg]

\* a step in which Terminate of c is called and returns
TerminateReturns(c) ==
    /\ pc[c] \in {"connected", "killed", "stopped", "pub_failed", "queue_failed"}
    /\ pc'[c] \in {"closed", "crashed"}

\* a step in which the Publish call of c returns
PublishReturns(c) ==
    /\ \/ pc[c] = "connected" /\ nextMsg' = nextMsg + 1 /\ ret'[c].msg.id = nextMsg
       \/ pc[c] = "pub_sent"
    /\ pc'[c] \in {"connected", "pub_failed"}
    /\ ret'[c].op = "Publish"

\* the sessions that matched the message when that Publish was called
PublishMatched(c) ==
    IF pc[c] = "connected" THEN Matching(ret'[c].msg.topic) ELSE pub[c].matched

\* C5: a clean Setup for a non-empty id deletes the stored session of the id
\* and returns a new, empty session that is not stored, with resumed=false;
\* the non-clean Setup that follows a clean one for the id returns
\* resumed=false and a new session without subscriptions and queued messages
C5_CleanDeletes ==
    [][\A c \in Clients :
          (SetupReturns(c) /\ cid'[c] # "") =>
             LET id == cid'[c]
                 s == csess'[c]
             IN /\ clean'[c] =>
                      /\ storedSessions'[id] = NoSession
                      /\ \A i \in StoredIds : storedSessions'[i] # s
                      /\ temporarySessions'[c] = s
                /\ (clean'[c] \/ lastSetup[id].clean) =>
                      /\ s = NewSessionPtr
                      /\ ~ret'[c].resumed
                      /\ sessions'[s].subs = {}
                      /\ sessions'[s].queue = <<>>]_vars

\* C5 witness: a non-clean Setup returned after a clean Setup deleted a stored
\* session that held a subscription and a queued message
C5_Witness ==
    \E c \in Clients :
        /\ pc[c] = "connected" /\ cid[c] = "a" /\ ~clean[c]
        /\ ret[c].op = "Setup" /\ ~ret[c].resumed
        /\ lastSetup["a"].prior.clean /\ lastSetup["a"].prior.content

\* C6: a stored session persists while it has no owner, and every Publish
\* that matches it in that time appends the message to its queue: no Publish
\* is left waiting to send to the queue of a session without an owner, whose
\* queue nobody receives from
C6_OfflinePublishAppends ==
    \A c \in Clients :
        pc[c] = "pub_blocked" => sessions[pub[c].on].owner # NoClient

\* C6, for the Publish calls that return: the session of a non-clean Setup
\* for a non-empty id stays in storedSessions with its subscriptions and its
\* queue when its client terminates; while it has no owner a Publish that
\* matches it and returns nil has appended the message to its queue and nothing
\* leaves the queue; the next non-clean Setup for the id returns this session
\* with resumed=true and the queue as it was, the messages of each publisher
\* in the order of its Publish calls
DurablePersists ==
    [][/\ \A c \in Clients :
          LET s == csess[c]
              id == cid[c]
          IN (TerminateReturns(c) /\ id # "" /\ ~clean[c]) =>
                /\ storedSessions'[id] = s
                /\ sessions'[s].owner = NoClient
                /\ sessions'[s].subs = sessions[s].subs
                /\ sessions'[s].queue = sessions[s].queue
       /\ \A c \in Clients :
          (PublishReturns(c) /\ ret'[c].err = NoError) =>
             \A s \in PublishMatched(c) :
                (/\ \E i \in StoredIds : storedSessions'[i] = s
                 /\ sessions[s].owner = NoClient
                 /\ sessions'[s].owner = NoClient) =>
                   Cardinality({k \in 1..Len(sessions'[s].queue) :
                                   sessions'[s].queue[k] = ret'[c].msg}) = 1
       /\ \A s \in 1..Len(sessions) :
          (sessions[s].owner = NoClient /\ sessions'[s].owner = NoClient
           /\ ~sessions'[s].freed) =>
             /\ Len(sessions[s].queue) <= Len(sessions'[s].queue)
             /\ SubSeq(sessions'[s].queue, 1, Len(sessions[s].queue))
                   = sessions[s].queue
       /\ \A c \in Clients :
          LET id == cid'[c]
              s == csess'[c]
          IN (/\ SetupReturns(c) /\ id # "" /\ ~clean'[c]
              /\ storedSessions[id] # NoSession) =>
                /\ s = storedSessions[id]
                /\ storedSessions'[id] = s
                /\ ret'[c].resumed
                /\ sessions'[s].owner = c
                /\ sessions'[s].subs = sessions[s].subs
                /\ sessions'[s].queue = sessions[s].queue
                /\ \A k, l \in 1..Len(sessions'[s].queue) :
                      LET q == sessions'[s].queue IN
                      (k < l /\ q[k].from = q[l].from) => q[k].id < q[l].id]_vars

\* C7: Setup with a zero-length id returns a new temporary session with
\* resumed=false, closes no kill channel and leaves storedSessions and
\* activeClients as they are; Terminate of that client removes the session
\* from the maps, after which nothing is appended to it, and Setup returns
\* only a stored session or a new one
C7_TemporarySession ==
    [][/\ \A c \in Clients :
          /\ (SetupReturns(c) /\ cid'[c] = "") =>
                /\ csess'[c] = NewSessionPtr
                /\ temporarySessions'[c] = csess'[c]
                /\ \A i \in StoredIds : storedSessions'[i] # csess'[c]
                /\ ~ret'[c].resumed
                /\ UNCHANGED <<storedSessions, activeClients>>
                /\ \A s \in 1..Len(sessions) : sessions'[s].kill => sessions[s].kill
          /\ SetupReturns(c) => csess'[c] \in StoredSet \cup {NewSessionPtr}
          /\ (TerminateReturns(c) /\ cid[c] = "") =>
                /\ \A d \in Clients : temporarySessions'[d] # csess[c]
                /\ \A i \in StoredIds : storedSessions'[i] # csess[c]
       /\ \A s \in 1..Len(sessions) :
             (sessions[s].anon /\ ~Present(s)) => appended'[s] \in {appended[s], <<>>}]_vars

\* C7 witness: a temporary session of a zero-length id is gone after its
\* client's Terminate, and a Publish has returned since in a backend that
\* holds a stored session
C7_Witness ==
    \E s \in 1..Len(sessions), d \in Clients :
        /\ sessions[s].anon /\ sessions[s].freed
        /\ pc[d] = "connected" /\ ret[d].op = "Publish" /\ ret[d].err = NoError
        /\ ret[d].msg.id > 1
        /\ StoredSet # {}

\* C8: Dequeue returns the messages of a session in the order in which they
\* were appended to its queue, and the messages one publisher published to a
\* session are appended, hence dequeued, in the order of its Publish calls
C8_Ordering ==
    \A s \in 1..Len(sessions) :
        /\ dequeued[s] \o sessions[s].queue = AppendedMsgs(s)
        /\ \A k, l \in 1..Len(appended[s]) :
              (/\ k < l
               /\ appended[s][k].op = "Publish" /\ appended[s][l].op = "Publish"
               /\ appended[s][k].msg.from = appended[s][l].msg.from) =>
                 appended[s][k].msg.id < appended[s][l].msg.id

\* C8 witness: a session has dequeued two messages of one publisher, the
\* second of which was sent by a Publish that had blocked on the full queue
C8_Witness ==
    \E s \in 1..Len(sessions) :
        /\ Len(dequeued[s]) = 2
        /\ dequeued[s][1].from = dequeued[s][2].from
        /\ dequeued[s][1].from # sessions[s].owner
        /\ SessionQueueSize = 1

\* C9: when Publish returns nil the message has been appended exactly once
\* to the queue of every session of the maps that held a matching
\* subscription, however many, and to the queue of no session without one
C9_PublishExactlyOnce ==
    [][\A c \in Clients :
          (PublishReturns(c) /\ ret'[c].err = NoError) =>
             \A s \in 1..Len(sessions') :
                LET n == Cardinality({k \in 1..Len(appended'[s]) :
                                        /\ appended'[s][k].msg = ret'[c].msg
                                        /\ appended'[s][k].op = "Publish"})
                IN /\ n <= 1
                   /\ (s \in PublishMatched(c) /\ ~sessions'[s].freed) => n = 1
                   /\ n = 1 => \E f \in sessions'[s].subs :
                                   Matches(f, ret'[c].msg.topic)]_vars

\* C9 witness: a Publish returned nil; a session with two matching
\* subscriptions got the message once, a session without a matching
\* subscription did not get it
C9_Witness ==
    \E c \in Clients, s, t \in 1..Len(sessions) :
        /\ pc[c] = "connected" /\ ret[c].op = "Publish" /\ ret[c].err = NoError
        /\ ret[c].msg.topic = <<"a", "b">>
        /\ sessions[s].subs = Filters
        /\ AppendedMsgs(s) = <<ret[c].msg>>
        /\ ~sessions[t].freed /\ sessions[t].subs = {} /\ appended[t] = <<>>

\* C10: an append to the caller's own queue never waits: Publish blocks only
\* on the queue of another session and returns ErrQueueFull when it reaches
\* its own matching session with a full queue; QueueRetained returns
\* ErrQueueFull when the queue of the client's session is full
C10_OwnQueueNeverBlocks ==
    [][\A c \in Clients :
          LET s == csess[c] IN
          /\ pc'[c] = "pub_blocked" => pub'[c].on # csess'[c]
          /\ (PublishReturns(c) /\ ret'[c].err = ErrQueueFull) =>
                /\ sessions[s].owner = c
                /\ Len(sessions[s].queue) = SessionQueueSize
                /\ sessions'[s].queue = sessions[s].queue
          /\ (/\ PublishReturns(c) /\ pc[c] = "connected" /\ Present(s)
              /\ LookupSubscription(s, ret'[c].msg.topic)
              /\ Len(sessions[s].queue) = SessionQueueSize) =>
                ret'[c].err = ErrQueueFull
          /\ \A f \in Filters :
                (/\ QueueRetained(c, f) /\ Search(f) # {}
                 /\ Len(sessions[s].queue) = SessionQueueSize) =>
                   /\ pc'[c] = "queue_failed"
                   /\ ret'[c].err = ErrQueueFull
                   /\ sessions'[s].queue = sessions[s].queue
          /\ (pc[c] = "connected" /\ pc'[c] = "queue_failed") =>
                /\ ret'[c].err = ErrQueueFull
                /\ Len(sessions'[s].queue) = SessionQueueSize]_vars

\* C10 witness: a Publish and a QueueRetained each returned ErrQueueFull
\* for the full queue of the caller's own session
C10_Witness ==
    \E c, d \in Clients :
        /\ pc[c] = "pub_failed" /\ ret[c].err = ErrQueueFull
        /\ Len(sessions[csess[c]].queue) = SessionQueueSize
        /\ pc[d] = "queue_failed" /\ ret[d].err = ErrQueueFull
        /\ Len(sessions[csess[d]].queue) = SessionQueueSize

\* a step in which Publish is called by c
PublishCalled(c) ==
    /\ pc[c] = "connected"
    /\ nextMsg' = nextMsg + 1
    /\ pub'[c].msg.id = nextMsg \/ ret'[c].msg.id = nextMsg

\* the message of the Publish called in this step
CalledMsg(c) == IF pub'[c].msg.id = nextMsg THEN pub'[c].msg ELSE ret'[c].msg

\* the sessions with a full queue that match the topic and that c owns
\* (own) or does not own
FullFor(c, topic, own) ==
    {s \in Matching(topic) : /\ Len(sessions[s].queue) = SessionQueueSize
                             /\ (sessions[s].owner = c) = own}

\* C11 as stated: when Publish finds a matching session that the publisher
\* does not own and whose queue is full, Publish returns an error
C11_ForeignFullReported ==
    [][\A c \in Clients :
          (PublishCalled(c) /\ FullFor(c, CalledMsg(c).topic, FALSE) # {}) =>
             (PublishReturns(c) /\ ret'[c].err # NoError)]_vars

\* C11 as amended: a matching session that the publisher does not own and
\* whose queue is full is not reported: unless the publisher's own queue is
\* full too, Publish does not return but waits at such a queue, and leaves
\* the wait only when a Dequeue of that session has made room and the message
\* is in the queue; the one error Publish returns is ErrQueueFull, for the
\* full queue of the publisher's own session
C11_ForeignFullBlocks ==
    [][\A c \in Clients :
          /\ (/\ PublishCalled(c)
              /\ FullFor(c, CalledMsg(c).topic, FALSE) # {}
              /\ FullFor(c, CalledMsg(c).topic, TRUE) = {}) =>
                /\ pc'[c] = "pub_blocked"
                /\ ret'[c] = ret[c]
                /\ pub'[c].on \in FullFor(c, CalledMsg(c).topic, FALSE)
                /\ sessions'[pub'[c].on].queue = sessions[pub'[c].on].queue
          /\ (pc[c] = "pub_blocked" /\ pc'[c] # "pub_blocked") =>
                LET s == pub[c].on IN
                /\ pc'[c] = "pub_sent"
                /\ ret'[c] = ret[c]
                /\ dequeued'[s] = Append(dequeued[s], Head(sessions[s].queue))
                /\ sessions'[s].queue = Append(Tail(sessions[s].queue), pub[c].msg)
          /\ PublishReturns(c) =>
                /\ ret'[c].err \in {NoError, ErrQueueFull}
                /\ ret'[c].err = ErrQueueFull =>
                      /\ sessions[csess[c]].owner = c
                      /\ LookupSubscription(csess[c], ret'[c].msg.topic)
                      /\ Len(sessions[csess[c]].queue) = SessionQueueSize]_vars

\* C11 witness: a Publish that waited at the full queue of another client's
\* session has sent its message after a Dequeue of that session
C11_Witness ==
    \E c \in Clients, s \in 1..Len(sessions) :
        /\ pc[c] = "pub_sent"
        /\ sessions[s].owner \notin {c, NoClient}
        /\ appended[s] # <<>>
        /\ appended[s][Len(appended[s])].msg = pub[c].msg
        /\ dequeued[s] # <<>>

\* C12: a Publish that waits at the full queue of another client's session
\* stops waiting when the kill signal of that session fires: no Publish is
\* left waiting at the queue of a session whose kill signal has fired and
\* whose client, having got ErrKilled from Dequeue, receives no more
C12_BlockedPublishObservesKill ==
    \A c \in Clients :
        pc[c] = "pub_blocked" =>
            LET s == pub[c].on IN
            ~(/\ sessions[s].kill
              /\ sessions[s].owner # NoClient
              /\ pc[sessions[s].owner] = "killed")

\* a step in which a Dequeue call of c returns: a message, ErrKilled or
\* nothing
DequeueReturns(c) ==
    /\ pc[c] \in {"connected", "pub_blocked", "pub_sent", "conn_closed"}
    /\ \/ Len(dequeued'[csess[c]]) = Len(dequeued[csess[c]]) + 1
       \/ pc'[c] = "killed"
       \/ pc'[c] = "stopped"

\* C13 as stated: after the kill signal of a session has fired, every Dequeue
\* call on the session returns ErrKilled
C13_KilledDequeue ==
    [][\A c \in Clients :
          (DequeueReturns(c) /\ sessions[csess[c]].kill) =>
             (pc'[c] = "killed" /\ ret'[c].err = ErrKilled)]_vars

\* C13 as amended: the kill signal is level-triggered, once fired it stays
\* fired until the session is re-armed or dropped, whatever Dequeue calls
\* are made; a Dequeue call on a session whose kill signal has fired returns
\* ErrKilled when the queue is empty and the close channel open, and
\* otherwise ErrKilled, the next queued message or, the close channel being
\* closed, nothing
C13_KillLevelTriggered ==
    [][/\ \A s \in 1..Len(sessions) :
             (sessions[s].kill /\ ~sessions'[s].freed
              /\ sessions'[s].gen = sessions[s].gen) => sessions'[s].kill
       /\ \A c \in Clients :
             (DequeueReturns(c) /\ sessions[csess[c]].kill) =>
                LET s == csess[c] IN
                \/ /\ pc'[c] = "killed"
                   /\ ret'[c].op = "Dequeue" /\ ret'[c].err = ErrKilled
                   /\ sessions'[s].queue = sessions[s].queue
                \/ /\ sessions[s].queue # <<>>
                   /\ dequeued'[s] = Append(dequeued[s], Head(sessions[s].queue))
                   /\ pc'[c] = pc[c]
                \/ /\ pc[c] = "conn_closed"
                   /\ pc'[c] = "stopped"
                   /\ ret'[c].op = "Dequeue" /\ ret'[c].err = NoError
                   /\ ret'[c].msg = NoMsg]_vars

\* C13 witness: the kill signal of a session has fired by Close, a Dequeue on
\* the session has returned ErrKilled while a message was queued, and the
\* signal is still fired
C13_Witness ==
    \E c \in Clients :
        /\ pc[c] = "killed" /\ ret[c].op = "Dequeue" /\ ret[c].err = ErrKilled
        /\ sessions[csess[c]].kill
        /\ sessions[csess[c]].queue # <<>>
        /\ closer.pc = "close_wait"

\* C14: Dequeue does not return while the queue of the session is empty, its
\* kill signal has not fired and the close channel is open; when the close
\* channel is closed in that situation Dequeue returns no message and no error
\* and takes nothing from the session, and it returns no message and no error
\* in no other situation
C14_DequeueBlocksUntilClose ==
    [][\A c \in Clients :
          DequeueReturns(c) =>
             LET s == csess[c] IN
             /\ \/ sessions[s].queue # <<>>
                \/ sessions[s].kill
                \/ pc[c] = "conn_closed"
             /\ (sessions[s].queue = <<>> /\ ~sessions[s].kill) =>
                   /\ pc'[c] = "stopped"
                   /\ ret'[c].op = "Dequeue"
                   /\ ret'[c].msg = NoMsg /\ ret'[c].err = NoError
                   /\ UNCHANGED <<sessions, dequeued>>
             /\ pc'[c] = "stopped" => pc[c] = "conn_closed"]_vars

\* C14 witness: a Dequeue on a session with an empty queue and without a
\* kill has returned no message and no error after the close channel was closed
C14_Witness ==
    \E c \in Clients :
        /\ pc[c] = "stopped"
        /\ ret[c].op = "Dequeue" /\ ret[c].msg = NoMsg /\ ret[c].err = NoError
        /\ sessions[csess[c]].queue = <<>>
        /\ ~sessions[csess[c]].kill
        /\ dequeued[csess[c]] # <<>>

\* the done channel w has fired in the sessions ss: it is closed, or the
\* session was re-armed after it was closed
Fired(ss, w) == ss[w.sess].done \/ ss[w.sess].gen # w.gen

\* a step in which Close is called
CloseCalled == closer'.calls = closer.calls + 1

\* a step in which a Close call returns
CloseReturns == closer' # closer /\ closer'.pc = "returned"

C16_CloseFiresKills ==
    [][CloseCalled =>
          /\ closer'.pc # "crashed"
          /\ \A s \in TemporarySet : sessions'[s].kill
          /\ \A s \in StoredSet :
                IF sessions[s].owner # NoClient THEN sessions'[s].kill
                ELSE sessions'[s].kill = sessions[s].kill]_vars

\* a step in which an Authenticate call of c returns
AuthenticateReturns(c) ==
    /\ pc[c] = "new"
    /\ pc'[c] \in {"new", "auth_failed"}
    /\ ret'[c].op = "Authenticate"
    /\ ret'[c] # ret[c] \/ pc'[c] # pc[c]

\* a step of a Setup call of c that has not got past the closing check of
\* line 254
SetupStarts(c) ==
    /\ pc[c] \in {"new", "setup_lockS"}
    /\ pc'[c] \notin {pc[c], "auth_failed"}

\* C17: once Close has been called closing is set and stays set; an
\* Authenticate call made then returns ErrClosing and lets nobody in, a Setup
\* call made then returns no session and no error but ErrClosing, and neither
\* changes a session, an owner or an entry of the three maps
C17_ClosingRejects ==
    [][/\ CloseCalled => closing'
       /\ closing => closing'
       /\ \A c \in Clients :
             /\ (closing /\ AuthenticateReturns(c)) =>
                   /\ ret'[c].err = ErrClosing /\ ~ret'[c].ok
                   /\ pc'[c] = "auth_failed"
                   /\ UNCHANGED <<sessions, activeClients, storedSessions,
                                  temporarySessions, csess>>
             /\ (closing /\ SetupStarts(c)) =>
                   /\ pc'[c] \in {"setup_lockS", "setup_failed", "crashed"}
                   /\ pc'[c] = "setup_failed" =>
                         (ret'[c].op = "Setup" /\ ret'[c].err = ErrClosing)
                   /\ UNCHANGED <<sessions, activeClients, storedSessions,
                                  temporarySessions, csess>>]_vars

\* C17 witness: after a Close call that left a session with its owner, an
\* Authenticate call and a Setup call have returned ErrClosing
C17_Witness ==
    /\ closing /\ closer.calls > 0
    /\ \E c, d \in Clients :
          /\ pc[c] = "auth_failed" /\ ret[c].err = ErrClosing
          /\ pc[d] = "setup_failed" /\ ret[d].err = ErrClosing
    /\ \E s \in 1..Len(sessions) : sessions[s].owner # NoClient

StoreReturns == nextMsg' = nextMsg + 1 /\ UNCHANGED <<pub, ret>>

\* a step in which ClearRetained is called for a topic that has a retained
\* message
ClearReturns(t) ==
    /\ retainedMessages[t] # NoMsg /\ retainedMessages'[t] = NoMsg
    /\ nextMsg' = nextMsg

\* the messages that a step appended to the queue of s
NewInQueue(s) ==
    SubSeq(sessions'[s].queue, Len(sessions[s].queue) + 1, Len(sessions'[s].queue))

\* C19: StoreRetained makes its message the one retained message of its
\* topic and leaves the other topics alone, and only StoreRetained and
\* ClearRetained change the store; QueueRetained appends to the queue of the
\* client's session retained messages of topics its filter matches only,
\* each of them the message the store holds for its topic and no topic
\* twice, nothing for a topic without a retained message, and when it
\* returns nil the message of every topic the filter matches
C19_RetainedQueued ==
    [][/\ StoreReturns =>
             \E t \in Topics :
                /\ retainedMessages'[t].id = nextMsg
                /\ retainedMessages'[t].topic = t
                /\ \A u \in Topics \ {t} :
                      retainedMessages'[u] = retainedMessages[u]
       /\ retainedMessages' # retainedMessages =>
             (StoreReturns \/ \E t \in Topics : ClearReturns(t))
       /\ \A c \in Clients, f \in RetainedFilters :
             QueueRetained(c, f) =>
                LET s == csess[c]
                    new == NewInQueue(s)
                IN /\ Len(sessions[s].queue) <= Len(sessions'[s].queue)
                   /\ SubSeq(sessions'[s].queue, 1, Len(sessions[s].queue))
                         = sessions[s].queue
                   /\ \A i \in 1..Len(new) :
                         /\ new[i] # NoMsg
                         /\ new[i].topic \in Topics
                         /\ Matches(f, new[i].topic)
                         /\ new[i] = retainedMessages[new[i].topic]
                   /\ \A i, j \in 1..Len(new) :
                         i # j => new[i].topic # new[j].topic
                   /\ ret'[c].err = NoError =>
                         \A t \in Topics :
                            (Matches(f, t) /\ retainedMessages[t] # NoMsg) =>
                               \E i \in 1..Len(new) : new[i] = retainedMessages[t]]_vars

\* C19 witness: one QueueRetained call has returned nil and appended the
\* retained messages of two topics, the later stored of which is the second
\* message stored
C19_Witness ==
    \E c \in Clients :
        /\ pc[c] = "connected"
        /\ ret[c].op = "QueueRetained" /\ ret[c].err = NoError
        /\ Len(appended[csess[c]]) = 2
        /\ \A i \in 1..2 : appended[csess[c]][i].op = "QueueRetained"
        /\ appended[csess[c]][1].msg.topic # appended[csess[c]][2].msg.topic
        /\ sessions[csess[c]].queue = AppendedMsgs(csess[c])
        /\ nextMsg = 3

C21_Authenticate ==
    [][\A c \in Clients :
          (~closing /\ AuthenticateReturns(c)) =>
             /\ ret'[c].err = NoError
             /\ ret'[c].ok =
                   (Credentials.nil \/
                    <<ret'[c].user, ret'[c].password>> \in Credentials.map)
             /\ UNCHANGED <<sessions, activeClients, storedSessions,
                            temporarySessions, retainedMessages, Credentials,
                            SessionQueueSize, closing, globalMutex, setupMutex,
                            csess>>]_vars

\* C21 witness: with a map configured and a session set up with its owner,
\* one connection was let in with a user and its password and one was
\* refused for a wrong password of a user of the map, both without an error
C21_Witness ==
    /\ ~closing /\ ~Credentials.nil
    /\ \E c, d \in Clients :
          /\ ret[c].op = "Authenticate" /\ ret[c].ok /\ ret[c].err = NoError
          /\ <<ret[c].user, ret[c].password>> \in Credentials.map
          /\ ret[d].op = "Authenticate" /\ ~ret[d].ok /\ ret[d].err = NoError
          /\ \E x \in Credentials.map :
                x[1] = ret[d].user /\ x[2] # ret[d].password
    /\ \E s \in 1..Len(sessions) : sessions[s].owner # NoClient

\* the packets of a type written to the connection
WrittenIds(type) ==
    {written[k].id : k \in {j \in 1..Len(written) : written[j].type = type}}

\* C22: at most client_parallel_publishes inbound exchanges of the connection
\* hold a publish token; PUBREC for a publish is written only in a step that
\* found a token free and gave it to that publish; and a reader that waits
\* for a token never gets one: its wait ends only with the connection closed
\* and nothing written, so with one token a second QoS 2 PUBLISH sent before
\* the PUBREL of the first gets no PUBREC and ends in the token timeout
C22_PublishWindow ==
    [][/\ Cardinality(publishTokens') <= ClientParallelPublishes
       /\ \A id \in InboundIds :
             written' = Append(written, Packet("PUBREC", id, 0, FALSE)) =>
                /\ Cardinality(publishTokens) < ClientParallelPublishes
                /\ id \in publishTokens'
       /\ (reader.pc = "idle" /\ reader'.pc = "wait_token") =>
             /\ Cardinality(publishTokens) = ClientParallelPublishes
             /\ written' = written
       /\ (reader.pc = "wait_token" /\ reader' # reader) =>
             /\ state' = "Closed"
             /\ written' = written
             /\ reader' \in {NoWork, [reader EXCEPT !.pc = "token_timeout"]}]_vars

\* C22 witness: with one publish token the client got PUBREC for a QoS 2
\* publish, sent a second QoS 2 publish without PUBREL for the first, got no
\* PUBREC for it and the connection was closed for the token timeout
C22_Witness ==
    /\ ClientParallelPublishes = 1
    /\ state = "Closed"
    /\ reader.pc = "token_timeout" /\ reader.qos = 2
    /\ reader.id \notin WrittenIds("PUBREC")
    /\ WrittenIds("PUBREC") # {}
    /\ WrittenIds("PUBCOMP") = {}

\* the outbound QoS 1 and QoS 2 publishes written to the connection that no
\* PUBACK or PUBREC has answered
Unacknowledged ==
    {i \in PacketIds : /\ outgoing[i].type = "PUBLISH"
                       /\ i \in WrittenIds("PUBLISH")}

\* C23: the broker never has more than client_inflight_messages
\* unacknowledged outbound QoS 1 and QoS 2 publishes toward the client
C23_InflightWindow ==
    state = "Connected" =>
        Cardinality(Unacknowledged) <= ClientInflightMessages

\* a step in which the client id connects with clean=false and the backend
\* holds its stored session
ResumeStep ==
    /\ state = "Closed" /\ state' = "Connected"
    /\ sessionStored /\ ~cleanSession'

\* the packets written to the connection by the step
WrittenBy == {written'[k] : k \in (IF state = "Closed" THEN 1
                                   ELSE Len(written) + 1)..Len(written')}

\* C24: a QoS 1 PUBLISH that was written stays in the session until its
\* PUBACK; when the client id connects again with clean=false it is written
\* again with DUP=1, the same packet id and QoS 1; the PUBACK deletes it, and
\* a connection writes no DUP publish for an id the session holds no publish
\* for
C24_ResendQOS1 ==
    [][\A id \in PacketIds :
          /\ (ResumeStep /\ outgoing[id].type = "PUBLISH"
                         /\ outgoing[id].qos = 1) =>
                /\ Packet("PUBLISH", id, 1, TRUE) \in WrittenBy
                /\ outgoing'[id] = outgoing[id]
          /\ (state = "Connected" /\ outgoing[id].type = "PUBLISH"
                /\ outgoing[id].qos = 1 /\ outgoing'[id] # outgoing[id]) =>
                outgoing'[id] = NoPacket
          /\ (state = "Closed" /\ state' = "Connected"
                /\ ~(ResumeStep /\ outgoing[id].type = "PUBLISH")) =>
                \A q \in {1, 2}, d \in BOOLEAN :
                   Packet("PUBLISH", id, q, d) \notin WrittenBy
          /\ (state = "Connected" /\ Packet("PUBLISH", id, 1, FALSE) \in WrittenBy)
                => outgoing'[id] = Packet("PUBLISH", id, 1, FALSE)]_vars

\* C24 witness: on its second connection the client was sent the QoS 1
\* PUBLISH again with DUP=1 and has acknowledged it
C24_Witness ==
    /\ connections = 2 /\ state = "Connected" /\ ~cleanSession
    /\ \E id \in PacketIds :
          /\ Len(written) >= 2
          /\ written[2] = Packet("PUBLISH", id, 1, TRUE)
          /\ outgoing[id] = NoPacket

\* C25: a QoS 2 PUBLISH that was written and not answered by PUBREC is
\* written again with DUP=1, the same packet id and QoS 2 when the client id
\* connects again with clean=false, and no PUBREL for it; the PUBREC then
\* makes the entry a PUBREL, which is written, and the PUBCOMP deletes it
C25_ResendQOS2 ==
    [][\A id \in PacketIds :
          /\ (ResumeStep /\ outgoing[id].type = "PUBLISH"
                         /\ outgoing[id].qos = 2) =>
                /\ Packet("PUBLISH", id, 2, TRUE) \in WrittenBy
                /\ Packet("PUBREL", id, 0, FALSE) \notin WrittenBy
                /\ outgoing'[id] = outgoing[id]
          /\ (state = "Connected" /\ outgoing[id].type = "PUBLISH"
                /\ outgoing[id].qos = 2
                /\ Packet("PUBREL", id, 0, FALSE) \in WrittenBy) =>
                outgoing'[id] = Packet("PUBREL", id, 0, FALSE)
          /\ (state = "Connected" /\ outgoing[id].type = "PUBLISH"
                /\ outgoing[id].qos = 2 /\ outgoing'[id] # outgoing[id]) =>
                /\ outgoing'[id] = Packet("PUBREL", id, 0, FALSE)
                /\ WrittenBy = {Packet("PUBREL", id, 0, FALSE)}
          /\ (state = "Connected" /\ outgoing[id].type = "PUBREL"
                /\ outgoing'[id] # outgoing[id]) =>
                outgoing'[id] = NoPacket]_vars

\* C25 witness: on its second connection the client was sent the QoS 2
\* PUBLISH again with DUP=1, then PUBREL for its PUBREC, and its PUBCOMP has
\* deleted the entry
C25_Witness ==
    /\ connections = 2 /\ state = "Connected" /\ ~cleanSession
    /\ \E id \in PacketIds :
          /\ Len(written) >= 3
          /\ written[2] = Packet("PUBLISH", id, 2, TRUE)
          /\ written[3] = Packet("PUBREL", id, 0, FALSE)
          /\ outgoing[id] = NoPacket

\* C26: after the PUBREC of an outbound QoS 2 publish the entry of the
\* session is a PUBREL; when the client id connects again with clean=false
\* the PUBREL is written again with the same packet id, and no PUBLISH with
\* that id is written while the entry is a PUBREL
C26_ResendPubrel ==
    [][\A id \in PacketIds :
          /\ (state = "Connected" /\ state' = "Connected"
                /\ outgoing[id].type = "PUBLISH" /\ outgoing[id].qos = 2
                /\ (outgoing'[id] # outgoing[id] \/
                    Packet("PUBREL", id, 0, FALSE) \in WrittenBy)) =>
                outgoing'[id].type = "PUBREL"
          /\ (ResumeStep /\ outgoing[id].type = "PUBREL") =>
                /\ Packet("PUBREL", id, 0, FALSE) \in WrittenBy
                /\ outgoing'[id] = outgoing[id]
          /\ outgoing[id].type = "PUBREL" /\ outgoing'[id].type = "PUBREL" =>
                \A q \in {1, 2}, d \in BOOLEAN :
                   Packet("PUBLISH", id, q, d) \notin WrittenBy]_vars

\* C26 witness: the client answered PUBLISH with PUBREC on its first
\* connection, and on its second connection was sent the PUBREL again and no
\* PUBLISH, and its PUBCOMP has deleted the entry
C26_Witness ==
    /\ connections = 2 /\ state = "Connected" /\ ~cleanSession
    /\ \E id \in PacketIds :
          /\ Len(written) >= 2
          /\ written[2] = Packet("PUBREL", id, 0, FALSE)
          /\ id \notin WrittenIds("PUBLISH")
          /\ outgoing[id] = NoPacket

\* C27: a session holds the subscriptions its client saved and did not
\* delete: the set changes only by one filter the connected owner of the
\* session adds or removes, so a filter that was unsubscribed is not held
\* again before the client subscribes to it again, connected or not, as long
\* as the backend holds the session; and a
\* Publish call appends its message to the queue of a session only if a
\* subscription the session holds when the call gets to it matches the topic
\* (a call that got to the session while its queue was full waits there, and
\* its message is appended when the queue has room)
C27_Unsubscribed ==
    [][\A s \in 1..Len(sessions) :
          /\ \A k \in (Len(appended[s]) + 1)..Len(appended'[s]) :
                appended'[s][k].op = "Publish" =>
                   \/ \E f \in sessions[s].subs :
                         Matches(f, appended'[s][k].msg.topic)
                   \/ \E c \in Clients : /\ pc[c] = "pub_blocked"
                                         /\ pub[c].on = s
                                         /\ pub[c].msg = appended'[s][k].msg
          /\ \A c \in Clients :
                (pc'[c] = "pub_blocked" /\ pub'[c].on = s /\ pub'[c] # pub[c]) =>
                   \E f \in sessions[s].subs : Matches(f, pub'[c].msg.topic)
          /\ (sessions'[s].subs # sessions[s].subs /\ ~sessions'[s].freed) =>
                /\ \E c \in Clients : /\ pc[c] = "connected" /\ csess[c] = s
                                      /\ sessions[s].owner = c
                /\ \E f \in Filters :
                      \/ f \notin sessions[s].subs /\
                         sessions'[s].subs = sessions[s].subs \cup {f}
                      \/ f \in sessions[s].subs /\
                         sessions'[s].subs = sessions[s].subs \ {f}
                /\ UNCHANGED <<appended, pc, storedSessions>>]_vars

\* C27 witness: the stored session of a client that is gone got the first
\* message of a topic; its client had unsubscribed before it went, and the
\* second message of the topic, published without error after that, is not in
\* the queue of the session
C27_Witness ==
    \E s \in StoredSet, c \in Clients :
       /\ sessions[s].owner = NoClient
       /\ sessions[s].subs = {}
       /\ pc[c] = "connected"
       /\ ret[c].op = "Publish" /\ ret[c].err = NoError /\ ret[c].msg.id = 2
       /\ \E k \in 1..Len(appended[s]) :
             /\ appended[s][k].msg.id = 1
             /\ appended[s][k].msg.topic = ret[c].msg.topic
       /\ \A k \in 1..Len(appended[s]) : appended[s][k].msg.id # 2

\* a return code a SUBACK may carry
ValidCode(code) == code \in {0, 1, 2, 128}

(* C28: SUBACK round trip.  For a message with one or more return codes
   drawn from {0, 1, 2, 0x80}, Encode into a buffer of Len() bytes returns no
   error and writes exactly Len() bytes, and Decode of those bytes returns no
   error, consumes the same number of bytes and yields the same packet id and
   the same return codes in the same order. *)
C28_RoundTrip ==
    ( /\ Len(sm.ReturnCodes) >= 1
      /\ \A i \in 1..Len(sm.ReturnCodes) : ValidCode(sm.ReturnCodes[i])
      /\ Len(buf) = MessageLen(sm)
      /\ encoded.called )
    => /\ ~encoded.err /\ ~encoded.past
       /\ encoded.n = MessageLen(sm)
       /\ decoded.called
          => /\ ~decoded.err
             /\ decoded.n = encoded.n
             /\ decoded.sm.PacketID = sm.PacketID
             /\ decoded.sm.ReturnCodes = sm.ReturnCodes

C28_Witness ==
    /\ encoded.called /\ decoded.called
    /\ sm.PacketID = 258 /\ sm.ReturnCodes = <<2, 128>>
    /\ Len(buf) = MessageLen(sm)
    /\ decoded.sm = sm /\ decoded.n = 6

\* the slice is shorter than the fixed header, the packet id and the return
\* codes its remaining length announces, or announces no return code, or
\* carries a return code that is none
DecodeMustFail(src) ==
    \/ Len(src) < 2
    \/ LET v == DecodeVarint(src, 2, 0) IN
       \/ ~v.ok
       \/ Len(src) < 1 + v.n + v.value
       \/ v.value <= 2
       \/ \E i \in (1 + v.n + 3)..(1 + v.n + v.value) : ~ValidCode(src[i])

(* C29: Decode returns an error, and reads nothing past the end of the
   slice, when the slice is shorter than the header, the packet id and the
   announced return codes, when the remaining length is 2 or less, or when a
   return code is outside {0, 1, 2, 0x80}; Encode returns an error when a
   return code of the message is outside that set. *)
C29_Errors ==
    /\ decoded.called
       => /\ ~decoded.past
          /\ DecodeMustFail(buf) => decoded.err
    /\ ( /\ encoded.called
         /\ \E i \in 1..Len(sm.ReturnCodes) : ~ValidCode(sm.ReturnCodes[i]) )
       => encoded.err /\ encoded.n = 0

C29_Witness ==
    /\ ~encoded.called /\ decoded.called /\ decoded.err
    /\ buf = <<144, 3, 0, 2, 3>>
    /\ decoded.n = 5

(* C30: lock order.  globalMutex is always acquired before setupMutex: no
   call waits for globalMutex while it holds setupMutex, so that no calls of
   Setup, Publish, Terminate, Authenticate and Close block each other forever
   on the two mutexes. *)
C30_LockOrder ==
    \A c \in Clients :
        setupMutex = c => ~(pc[c] = "setup_relock" /\ globalMutex # Free)

\* the calls other than c that fired the kill signal of s or may have: a Setup
\* in its takeover wait for s, or one that gave the wait up
KillersOf(s, c) ==
    {d \in Clients \ {c} :
        \/ pc[d] = "setup_wait" /\ wait[d].sess = s
        \/ pc[d] \in {"setup_unlockG", "setup_failed"}}

(* C31: re-arm on resume.  When Setup returns a stored session with
   resumed=true the session's kill and done channels are open; the Dequeue of
   the owner of a resumed session returns ErrKilled only when Close or the
   takeover of another Setup fired the kill signal, and a takeover wait or a
   Close that waits for the done channel of the session goes on only after the
   owner of that time terminated. *)
C31_Rearm ==
    [][\A c \in Clients :
          /\ (SetupReturns(c) /\ ret'[c].resumed)
             => /\ ~sessions'[csess'[c]].kill
                /\ ~sessions'[csess'[c]].done
                /\ sessions'[csess'[c]].owner = c
          /\ ( /\ pc[c] # "killed" /\ pc'[c] = "killed"
               /\ sessions[csess[c]].gen > 0 )
             => closing \/ KillersOf(csess[c], c) # {}
          /\ (pc[c] = "setup_wait" /\ pc'[c] = "setup_relock")
             => sessions[wait[c].sess].owner = NoClient
          /\ ( /\ closer.pc = "close_wait"
               /\ closer'.list # closer.list
               /\ sessions[Head(closer.list).sess].gen = Head(closer.list).gen )
             => sessions[Head(closer.list).sess].owner = NoClient
      ]_vars

C31_Witness ==
    \E c, d \in Clients :
        /\ c # d /\ pc[d] = "closed"
        /\ pc[c] = "connected" /\ ret[c].op = "Setup" /\ ret[c].resumed
        /\ sessions[csess[c]].gen = 1 /\ sessions[csess[c]].owner = c
        /\ ~sessions[csess[c]].kill /\ ~sessions[csess[c]].done

\* a step in which the dequeuer writes the PUBLISH of a message it obtained
DequeuerWrites ==
    /\ state = "Connected"
    /\ Len(written') = Len(written) + 1
    /\ written'[Len(written')].type = "PUBLISH"
    /\ ~written'[Len(written')].dup

(* C32: the dequeuer writes each message at the lower of the QoS of the
   message and the QoS granted to the session's subscription: never above the
   granted QoS, and at exactly the granted QoS when the message was published
   at it. *)
C32_DeliveryQOS ==
    [][DequeuerWrites =>
         LET p == written'[Len(written')]
             d == delivered'
         IN /\ d.on
            /\ p.qos <= d.message
            /\ d.granted.on
               => /\ p.qos <= d.granted.qos
                  /\ p.qos \in {d.message, d.granted.qos}
                  /\ d.message = d.granted.qos => p.qos = d.granted.qos
      ]_vars

C32_Witness ==
    /\ state = "Connected" /\ connections = 2
    /\ subscription = [on |-> TRUE, qos |-> 1]
    /\ delivered = [on |-> TRUE, message |-> 2, granted |-> subscription]
    /\ written[Len(written)] = Packet("PUBLISH", 1, 1, FALSE)

(* C33: mutex balance in Setup.  On every return path of Setup, the
   ErrKillTimeout return included, each mutex is unlocked once per lock by the
   call that holds it: the deferred Unlock of globalMutex runs on a mutex the
   call holds, and no Unlock ends in the fatal error of an unlocked mutex. *)
C33_MutexBalance ==
    [][/\ fatal' # FatalUnlock
       /\ \A c \in Clients :
             (pc[c] = "setup_unlockG" /\ pc'[c] # "setup_unlockG")
             => globalMutex = c
      ]_vars

(* C34: the kill signal of a session is fired at most once between re-arms:
   no Setup takeover and no Close closes a kill channel that is closed
   already, also after a takeover that ended in the kill timeout, during a
   takeover wait and when Close is called twice. *)
C34_KillOnce ==
    [][/\ \A c \in Clients :
             ~( /\ pc[c] \in {"new", "setup_lockS"}
                /\ pc'[c] = "crashed"
                /\ fatal' = PanicClose )
       /\ ~(closer.pc # "crashed" /\ closer'.pc = "crashed")
      ]_vars

(* C35: after Close has set closing no session acquires a new owner and no
   client is added to activeClients, also not by a Setup that was in its
   takeover wait when Close ran. *)
C35_NoOwnerAfterClose ==
    [][closing =>
         /\ \A id \in StoredIds :
               activeClients'[id] \in {activeClients[id], NoClient}
         /\ \A s \in 1..Len(sessions') :
               sessions'[s].owner # NoClient
               => s <= Len(sessions) /\ sessions[s].owner = sessions'[s].owner
      ]_vars

\* the clients that have stopped calling Dequeue and call Terminate next
Terminating ==
    {c \in Clients : pc[c] \in {"killed", "stopped", "pub_failed", "queue_failed"}}

(* C36: every Terminate call returns, also when the Publish of another client
   is appending to the full queue of the terminating client's session: no
   terminating client waits for globalMutex while the call that holds it is a
   Publish blocked at the queue only that client could drain. *)
C36_TerminateReturns ==
    \A c \in Terminating :
        \A d \in Clients :
            ~(pc[d] = "pub_blocked" /\ pub[d].on = csess[c] /\ globalMutex = d)

(* C37: every Publish call returns provided the connected clients keep
   calling Dequeue: no Publish is blocked, with globalMutex locked, at the
   full queue of a stored session that has no owner, which no client can
   drain before a Setup that needs globalMutex gives it an owner. *)
C37_PublishReturns ==
    \A d \in Clients :
        (pc[d] = "pub_blocked" /\ globalMutex = d /\ pub[d].on \in StoredSet)
        => sessions[pub[d].on].owner # NoClient

(* C38: Publish is all-or-nothing on failure: when Publish returns
   ErrQueueFull because the publisher's own queue is full, every session's
   queue is as it was before the call. *)
C38_PublishAllOrNothing ==
    [][\A c \in Clients :
          ( /\ pc[c] = "connected" /\ pc'[c] = "pub_failed"
            /\ ret'[c].op = "Publish" /\ ret'[c].err = ErrQueueFull )
          => \A s \in 1..Len(sessions) : sessions'[s].queue = sessions[s].queue
      ]_vars

(* C39: SUBACK encode and decode agree on validity: the bytes a successful
   Encode has written are accepted by Decode, also for a message with no
   return code. *)
C39_EncodeDecodeAgree ==
    (encoded.called /\ ~encoded.err /\ decoded.called) => ~decoded.err

====
